---- MODULE Spec2Model ----
(***************************************************************************)
(* DevAlley VS Code extension: the session gate (SidebarProvider), the     *)
(* backend request layer (BackendService) and the protected operations of  *)
(* the extension host (chat send, completions, inline completion, hover,   *)
(* devalley.generateCode).                                                 *)
(*                                                                         *)
(* The repository holds the extension host twice: the TypeScript sources   *)
(* (src/src/extension.ts, src/src/SidebarProvider.ts) and a compiled       *)
(* bundle (src/unnamed/part_000) built from an earlier extension.ts.       *)
(* Spec is the TypeScript host, SpecBundle the bundled host, SpecApi the   *)
(* TypeScript host plus direct calls of SidebarProvider's public methods.  *)
(*                                                                         *)
(* Every asynchronous handler is a cycle: it runs from its invocation to   *)
(* its first await in one step, and from one await to the next in one      *)
(* step (JavaScript run-to-completion).  The backend's answer to a fetch   *)
(* is the nondeterministic input of the step that resumes the cycle.       *)
(***************************************************************************)
EXTENDS Naturals, Sequences, FiniteSets, TLC

VARIABLES
    authToken,      \* SidebarProvider._authToken
    userInfo,       \* SidebarProvider._userInfo
    backendToken,   \* BackendService.authToken (the singleton backendService)
    cyc,            \* the handler invocations in flight, one record per cycle
    last,           \* what the last step did (an observation, not program state)
    sinceLogout     \* a logout was handled and no login has succeeded since

vars == <<authToken, userInfo, backendToken, cyc, last, sinceLogout>>

----------------------------------------------------------------------------
(* Bounds *)

MaxCycles == 2

Cycles == 1..MaxCycles

----------------------------------------------------------------------------
(* JavaScript values *)

NULL == "<null>"

\* null, where an object is expected
NullObject == [null |-> TRUE]

UNDEF == "<undefined>"

\* JavaScript truthiness of a string-or-absent value (the operand of !! and ||)
Truthy(v) == v \notin {NULL, UNDEF, ""}

\* a || b
OrElse(a, b) == IF Truthy(a) THEN a ELSE b

\* a template literal's rendering of a value that may be undefined
Interpolate(v) == IF v = UNDEF THEN "undefined" ELSE IF v = NULL THEN "null" ELSE v

----------------------------------------------------------------------------
(* Endpoints and messages *)

LoginEndpoint == "/api/login"

ChatEndpoint == "/query_aatma"

CompletionEndpoint == "/query_completion"

AuthRequiredPanelText == "Authentication required. Please login first."

MissingCredentialsText == "Please enter both username and password"

InvalidCredentialsText == "Invalid credentials"

ConnectionFailedText ==
    "Connection failed. Please check if auth server is running on port 9090."

\* the { type, text } objects handed to webview.postMessage
PanelMsg(type, text) == [type |-> type, text |-> text]

ShowLoginMsg == [type |-> "showLogin"]

LoginSuccessMsg(user) == [type |-> "loginSuccess", user |-> user]

LoginErrorMsg(message) == [type |-> "loginError", message |-> message]

----------------------------------------------------------------------------
(* Cycles *)

\* the live state of a handler invocation
IdleCycle ==
    [ op     |-> "none",     \* which handler the cycle runs
      pc     |-> "idle",     \* the await it is suspended at
      prompt |-> "",         \* the prompt queryCompletion was called with
      via    |-> "" ]        \* generateCode: "selection" or "input"

NoRet == [kind |-> "pending"]

Void == [kind |-> "void"]

\* what one step of a handler did
IdleStep ==
    [ cycle    |-> 0,        \* the cycle that took the step
      op       |-> "none",   \* its handler
      from     |-> "init",   \* where it resumed: "invoke", or the await it left
      pc       |-> "idle",   \* where it stopped: an await, or "done"
      prompt   |-> "",
      via      |-> "",
      held     |-> FALSE,    \* the Session held a token when the step began
      calls    |-> <<>>,     \* the fetch calls the step issued, in order
      answered |-> "none",   \* how the call it awaited ended: "ok" or "failed"
      status   |-> 0,        \* the HTTP status of the response it got
      error    |-> NULL,     \* the message of the Error the request layer raised
      msgs     |-> <<>>,     \* the panel messages it posted, in order
      shown    |-> <<>>,     \* the vscode.window notifications it showed
      qret     |-> NoRet,    \* what the request layer returned to the handler
      ret      |-> NoRet ]   \* what the handler returned to its caller

Live(o) ==
    IF o.pc = "done"
    THEN IdleCycle
    ELSE [op |-> o.op, pc |-> o.pc, prompt |-> o.prompt, via |-> o.via]

\* a handler is invoked in the lowest free slot
Start(i) ==
    /\ cyc[i].pc = "idle"
    /\ \A j \in Cycles : j < i => cyc[j].pc # "idle"

\* cycle i takes the step o
Step(i, o) ==
    /\ cyc' = [cyc EXCEPT ![i] = Live(o)]
    /\ last' = [o EXCEPT !.cycle = i]

Call(endpoint, payload, token) ==
    [endpoint |-> endpoint, payload |-> payload, token |-> token]

----------------------------------------------------------------------------
(* SidebarProvider: the session *)

isAuthenticated == Truthy(authToken)

LoggedOut == authToken = NULL /\ userInfo = NullObject

LoggedIn == authToken # NULL /\ userInfo # NullObject

\* the step of a handler as it is invoked
Invoked(op) ==
    [IdleStep EXCEPT !.op = op, !.from = "invoke", !.held = isAuthenticated]

\* the step of a handler as it resumes from its await
Resumed(c) ==
    [IdleStep EXCEPT !.op = c.op, !.from = c.pc, !.prompt = c.prompt, !.via = c.via,
                     !.held = isAuthenticated]

\* a handler that returns at once
Returns(op, ret) == [Invoked(op) EXCEPT !.pc = "done", !.ret = ret]

----------------------------------------------------------------------------
(* JavaScript strings the code inspects, as sequences of characters.       *)
(* The value undefined, where a string is expected, is <<UNDEF>>.           *)

Undefined == <<UNDEF>>

\* the characters of a string literal
Chars(s) == [i \in 1..Len(s) |-> SubSeq(s, i, i)]

\* Array.prototype.join
RECURSIVE Join(_, _)
Join(parts, sep) ==
    IF parts = <<>> THEN <<>>
    ELSE IF Len(parts) = 1 THEN parts[1]
    ELSE parts[1] \o sep \o Join(Tail(parts), sep)

\* truthiness of a string-or-undefined value
TruthyText(s) == s # Undefined /\ s # <<>>

\* a || b
OrText(a, b) == IF TruthyText(a) THEN a ELSE b

\* \s
IsSpace(c) == c \in {" ", "\t", "\n", "\r"}

Letters ==
    { "a", "b", "c", "d", "e", "f", "g", "h", "i", "j", "k", "l", "m",
      "n", "o", "p", "q", "r", "s", "t", "u", "v", "w", "x", "y", "z" }

Digits == {"0", "1", "2", "3", "4", "5", "6", "7", "8", "9"}

\* \w, over the lower-case alphabet of the replies
IsWord(c) == c \in Letters \cup Digits \cup {"_"}

RECURSIVE TrimStart(_)
TrimStart(s) ==
    IF s # <<>> /\ IsSpace(Head(s)) THEN TrimStart(Tail(s)) ELSE s

RECURSIVE TrimEnd(_)
TrimEnd(s) ==
    IF s # <<>> /\ IsSpace(s[Len(s)]) THEN TrimEnd(SubSeq(s, 1, Len(s) - 1)) ELSE s

\* String.prototype.trim
Trim(s) == TrimEnd(TrimStart(s))

\* p occurs in s at position k
At(s, p, k) == k >= 1 /\ k + Len(p) - 1 <= Len(s) /\ SubSeq(s, k, k + Len(p) - 1) = p

StartsWith(s, p) == At(s, p, 1)

EndsWith(s, p) == At(s, p, Len(s) - Len(p) + 1)

Includes(s, p) == \E k \in 1..Len(s) : At(s, p, k)

\* the first position >= from at which p occurs in s, or 0
IndexFrom(s, p, from) ==
    IF \E k \in from..Len(s) : At(s, p, k)
    THEN CHOOSE k \in from..Len(s) : At(s, p, k) /\ \A j \in from..(k - 1) : ~At(s, p, j)
    ELSE 0

\* s.split('\n')
RECURSIVE SplitLines(_)
SplitLines(s) ==
    LET k == IndexFrom(s, <<"\n">>, 1)
    IN  IF k = 0
        THEN <<s>>
        ELSE <<SubSeq(s, 1, k - 1)>> \o SplitLines(SubSeq(s, k + 1, Len(s)))

RECURSIVE SelectLines(_)
\* .filter(line => line && !line.startsWith('#') && !line.startsWith('//'))
SelectLines(lines) ==
    IF lines = <<>>
    THEN <<>>
    ELSE LET l == Head(lines)
         IN  IF l # <<>> /\ ~StartsWith(l, <<"#">>) /\ ~StartsWith(l, <<"/", "/">>)
             THEN <<l>> \o SelectLines(Tail(lines))
             ELSE SelectLines(Tail(lines))

\* .slice(0, n)
Slice0(s, n) == SubSeq(s, 1, IF Len(s) < n THEN Len(s) ELSE n)

MapTrim(lines) == [k \in 1..Len(lines) |-> Trim(lines[k])]

----------------------------------------------------------------------------
(* parseCompletionResponse *)

\* the backtick character (the module text cannot hold it)
BT == "BACKTICK"

Fence == <<BT, BT, BT>>

FenceJson == <<BT, BT, BT, "j", "s", "o", "n">>

\* the two replace calls of the json branch: the opening fence with "json" and
\* the white space after it, then the closing fence at the end of the text
\* and the white space before it
StripJsonFence(s) ==
    LET opened == TrimStart(SubSeq(s, Len(FenceJson) + 1, Len(s)))
    IN  IF EndsWith(opened, Fence)
        THEN TrimEnd(SubSeq(opened, 1, Len(opened) - Len(Fence)))
        ELSE opened

RECURSIVE StripFences(_)
\* the replace call of the bare-fence branch: every fence-to-next-fence span
StripFences(s) ==
    LET open == IndexFrom(s, Fence, 1)
        close == IF open = 0 THEN 0 ELSE IndexFrom(s, Fence, open + Len(Fence))
    IN  IF close = 0
        THEN s
        ELSE SubSeq(s, 1, open - 1) \o StripFences(SubSeq(s, close + Len(Fence), Len(s)))

ReplyEmptyArray == <<"[", "]">>

ReplyArray ==
    << "[", "{", "\"", "t", "e", "x", "t", "\"", ":", "\"", "f", "o", "o", "(", ")", "\"",
       ",", "\"", "k", "i", "n", "d", "\"", ":", "\"", "f", "u", "n", "c", "t", "i", "o", "n",
       "\"", "}", "]" >>

ReplyObject == <<"{", "}">>

ReplyFenced == <<BT, BT, BT, "j", "s", "o", "n", "\n", "[", "]", "\n", BT, BT, BT>>

ReplyLines == <<"l", "e", "t", " ", "x", "\n", "#", " ", "c", "\n", "f", "(">>

ReplyBlank == <<" ">>

\* a decoded JSON object: the fields parseCompletionResponse reads, undefined when absent
JsonObject(text, kind) ==
    [ json |-> "object",
      text |-> text, completion |-> Undefined, label |-> Undefined,
      kind |-> kind, detail |-> Undefined, description |-> Undefined,
      documentation |-> Undefined, docs |-> Undefined, insertText |-> Undefined ]

\* the element null of a decoded array: reading a property of it throws
JsonNull == [JsonObject(Undefined, UNDEF) EXCEPT !.json = "null"]

\* the element 1 of a decoded array: every property read of it is undefined
JsonNumber == [JsonObject(Undefined, UNDEF) EXCEPT !.json = "number"]

MaxItems == 1

\* the decoded objects of the model: every combination of the fields that
\* supply text and insertText, and the object of ReplyArray
JsonObjects ==
    { [JsonObject(t, UNDEF) EXCEPT !.completion = c, !.label = l, !.insertText = i] :
        t \in {Undefined, Chars("foo()")}, c \in {Undefined, Chars("bar")},
        l \in {Undefined, Chars("baz")}, i \in {Undefined, Chars("ins")} }
      \cup {JsonObject(Chars("foo()"), "function")}

RECURSIVE SeqsUpTo(_, _)
\* the sequences over S of length at most n
SeqsUpTo(S, n) ==
    IF n = 0 THEN {<<>>}
    ELSE LET shorter == SeqsUpTo(S, n - 1)
         IN  shorter \cup {Append(q, x) : q \in shorter, x \in S}

\* the decoded values of the model: arrays of objects, of null and of a
\* number, and the object {}
JsonValues ==
    {[ok |-> TRUE, isArray |-> TRUE, items |-> q] :
        q \in SeqsUpTo(JsonObjects \cup {JsonNull, JsonNumber}, MaxItems)}
      \cup {[ok |-> TRUE, isArray |-> FALSE, items |-> <<>>]}

\* "name":"value", or nothing for a field the object does not have
JsonMember(name, value) ==
    IF value = Undefined THEN <<>>
    ELSE <<Chars("\"" \o name \o "\":\"") \o value \o <<"\"">> >>

\* the JSON text of an element of a decoded array
JsonObjectText(o) ==
    IF o.json = "null" THEN Chars("null")
    ELSE IF o.json = "number" THEN <<"1">>
    ELSE
    <<"{">> \o Join(JsonMember("text", o.text) \o JsonMember("completion", o.completion)
                     \o JsonMember("label", o.label)
                     \o JsonMember("kind", IF o.kind = UNDEF THEN Undefined ELSE Chars(o.kind))
                     \o JsonMember("insertText", o.insertText), <<",">>)
          \o <<"}">>

\* the JSON text of a decoded value
JsonText(v) ==
    IF v.isArray
    THEN <<"[">> \o Join([k \in 1..Len(v.items) |-> JsonObjectText(v.items[k])], <<",">>)
             \o <<"]">>
    ELSE <<"{", "}">>

\* the JSON texts of the model, each with the value it decodes to
JsonTexts == {<<JsonText(v), v>> : v \in JsonValues}

\* JSON.parse: the value a JSON text of the model decodes to; any other text
\* of the model is no JSON text and makes JSON.parse throw
JSONParse(s) ==
    IF \E e \in JsonTexts : e[1] = s
    THEN (CHOOSE e \in JsonTexts : e[1] = s)[2]
    ELSE [ok |-> FALSE, isArray |-> FALSE, items |-> <<>>]

\* item.text, the first property the mapping reads, throws a TypeError
ItemThrows(item) == item.json = "null"

\* the mapping of a decoded array throws on one of its elements
MapThrows(items) == \E k \in 1..Len(items) : ItemThrows(items[k])

\* the object built for one element of a decoded array
FromJsonItem(item) ==
    [ text          |-> OrText(item.text, OrText(item.completion, OrText(item.label, <<>>))),
      kind          |-> IF item.kind \in {UNDEF, ""} THEN "text" ELSE item.kind,
      detail        |-> OrText(item.detail, OrText(item.description, <<>>)),
      documentation |-> OrText(item.documentation, OrText(item.docs, <<>>)),
      insertText    |-> OrText(item.insertText, OrText(item.text, OrText(item.completion, <<>>))) ]

\* line.match(/(\w+)\s*\(/)
FuncMatch(line) ==
    \E k \in 1..Len(line), m \in 1..Len(line) :
        /\ k < m
        /\ IsWord(line[k])
        /\ line[m] = "("
        /\ \A n \in (k + 1)..(m - 1) : IsSpace(line[n])

Keywords ==
    { <<"c", "o", "n", "s", "t">>, <<"l", "e", "t">>, <<"v", "a", "r">> }

\* line.match(/(?:const|let|var)\s+(\w+)/)
VarMatch(line) ==
    \E kw \in Keywords, k \in 1..Len(line), m \in 1..Len(line) :
        /\ At(line, kw, k)
        /\ m > k + Len(kw)
        /\ IsWord(line[m])
        /\ \A n \in (k + Len(kw))..(m - 1) : IsSpace(line[n])

\* the declaration test made before the call test
LineKindVariableFirst(line) ==
    IF VarMatch(line) THEN "variable"
    ELSE IF FuncMatch(line) THEN "function"
    ELSE IF Includes(line, <<"c", "l", "a", "s", "s", " ">>) THEN "class"
    ELSE IF \/ Includes(line, <<"=", ">">>)
            \/ Includes(line, <<"f", "u", "n", "c", "t", "i", "o", "n">>)
         THEN "function"
    ELSE "text"

LineKind(line) ==
    IF FuncMatch(line) THEN "function"
    ELSE IF VarMatch(line) THEN "variable"
    ELSE IF Includes(line, <<"c", "l", "a", "s", "s", " ">>) THEN "class"
    ELSE IF \/ Includes(line, <<"=", ">">>)
            \/ Includes(line, <<"f", "u", "n", "c", "t", "i", "o", "n">>)
         THEN "function"
    ELSE "text"

FallbackLineCap == 10

FromLine(line) ==
    [ text          |-> line,
      kind          |-> LineKind(line),
      detail        |-> <<"A", "I", " ", "s", "u", "g", "g", "e", "s", "t", "i", "o", "n">>,
      documentation |-> <<>>,
      insertText    |-> line ]

\* the fallback without its cap
ParseFallbackUncapped(response) ==
    LET lines == SelectLines(MapTrim(SplitLines(response)))
    IN  [k \in 1..Len(lines) |-> FromLine(lines[k])]

\* the catch block: the line-based fallback
ParseFallback(response) ==
    LET lines == Slice0(SelectLines(MapTrim(SplitLines(response))), FallbackLineCap)
    IN  [k \in 1..Len(lines) |-> FromLine(lines[k])]

\* the text handed to JSON.parse
CleanResponse(response) ==
    LET clean == Trim(response)
    IN  IF StartsWith(clean, FenceJson) THEN StripJsonFence(clean)
        ELSE IF StartsWith(clean, Fence) THEN StripFences(clean)
        ELSE clean

\* the fallback taken for every value that is no array
parseCompletionResponseAlwaysFallback(response) ==
    IF response = Undefined
    THEN [threw |-> TRUE, suggestions |-> <<>>]
    ELSE LET parsed == JSONParse(CleanResponse(response))
         IN  IF parsed.ok /\ parsed.isArray /\ ~MapThrows(parsed.items)
             THEN [threw |-> FALSE,
                   suggestions |-> [k \in 1..Len(parsed.items) |-> FromJsonItem(parsed.items[k])]]
             ELSE [threw |-> FALSE, suggestions |-> ParseFallback(response)]

\* [threw |-> TRUE] when the function throws (response.trim and response.split
\* of undefined both throw TypeError), else the suggestions it returns
parseCompletionResponse(response) ==
    IF response = Undefined
    THEN [threw |-> TRUE, suggestions |-> <<>>]
    ELSE LET parsed == JSONParse(CleanResponse(response))
         IN  IF ~parsed.ok \/ (parsed.isArray /\ MapThrows(parsed.items))
             THEN [threw |-> FALSE, suggestions |-> ParseFallback(response)]
             ELSE IF parsed.isArray
             THEN [threw |-> FALSE,
                   suggestions |-> [k \in 1..Len(parsed.items) |-> FromJsonItem(parsed.items[k])]]
             ELSE [threw |-> FALSE, suggestions |-> <<>>]

----------------------------------------------------------------------------
(* Backend answers: the inputs of the steps that resume a cycle *)

Usernames == {"", "dev@alley"}

Passwords == {"", "secret"}

LoginBody(success, message, user_id, token, access_token) ==
    [ success         |-> success,
      message         |-> message,
      user_id         |-> user_id,
      email           |-> IF success THEN "dev@alley" ELSE UNDEF,
      conversation_id |-> IF success THEN "c1" ELSE UNDEF,
      token           |-> token,
      access_token    |-> access_token ]

LoginBodies ==
    { LoginBody(TRUE, UNDEF, "7", "tokA", "accB"),
      LoginBody(TRUE, UNDEF, "7", "", "tokA"),
      LoginBody(TRUE, UNDEF, "7", UNDEF, UNDEF),
      LoginBody(FALSE, "Account locked", UNDEF, UNDEF, UNDEF),
      LoginBody(FALSE, UNDEF, "7", "tokA", UNDEF) }

\* fetch rejected, or a response with a status and a body
NetworkError == [net |-> "error"]

HttpResponse(status, body) == [net |-> "ok", status |-> status, body |-> body]

\* a body response.json() rejects
BadJson == [json |-> FALSE]

\* Response.ok
ResponseOk(r) == r.status >= 200 /\ r.status <= 299

StatusText(status) ==
    CASE status = 200 -> "OK"
      [] status = 401 -> "Unauthorized"
      [] status = 403 -> "Forbidden"
      [] status = 404 -> "Not Found"
      [] status = 500 -> "Internal Server Error"
      [] OTHER -> ""

ErrorStatuses == {401, 403, 404, 500}

LoginAnswers ==
    {NetworkError}
      \cup {HttpResponse(s, BadJson) : s \in {401, 500}}
      \cup {HttpResponse(200, b) : b \in LoginBodies \cup {BadJson}}

----------------------------------------------------------------------------
(* SidebarProvider.handleLogin, and the login and logout messages *)

\* access_token preferred over token
LoginTokenAccessFirst(result) ==
    OrElse(result.access_token, OrElse(result.token, "user_" \o Interpolate(result.user_id)))

\* result.token || result.access_token || the template user_<user_id>
LoginToken(result) ==
    OrElse(result.token, OrElse(result.access_token, "user_" \o Interpolate(result.user_id)))

LoginUserInfo(result) ==
    [ id              |-> result.user_id,
      email           |-> result.email,
      conversation_id |-> result.conversation_id ]

\* every response with a success status and a body that decodes logs in
LoginSucceedsAnyBody(r) ==
    /\ r.net = "ok"
    /\ ResponseOk(r)
    /\ r.body # BadJson

\* the response reached the test of result.success and passed it
LoginSucceeds(r) ==
    /\ r.net = "ok"
    /\ ResponseOk(r)
    /\ r.body # BadJson
    /\ r.body.success

\* the loginError posted for an answer that is no success
LoginFailure(r) ==
    IF r.net = "ok" /\ ResponseOk(r) /\ r.body # BadJson
    THEN LoginErrorMsg(OrElse(r.body.message, InvalidCredentialsText))
    ELSE LoginErrorMsg(ConnectionFailedText)

LoginPayload(username, password) == [username |-> username, password |-> password]

\* case login: handleLogin up to its await of fetch
Login(i, username, password) ==
    /\ Start(i)
    /\ Step(i, IF ~Truthy(username) \/ ~Truthy(password)
               THEN [Returns("login", Void) EXCEPT
                       !.msgs = <<LoginErrorMsg(MissingCredentialsText)>>]
               ELSE [Invoked("login") EXCEPT
                       !.pc = "login",
                       !.calls = <<Call(LoginEndpoint, LoginPayload(username, password),
                                        NULL)>>])
    /\ UNCHANGED <<authToken, userInfo, backendToken, sinceLogout>>

\* handleLogin from its await of fetch to its end
LoginResponse(i, r) ==
    /\ cyc[i].op = "login"
    /\ cyc[i].pc = "login"
    /\ IF LoginSucceeds(r)
       THEN /\ authToken' = LoginToken(r.body)
            /\ userInfo' = LoginUserInfo(r.body)
            /\ sinceLogout' = FALSE
       ELSE UNCHANGED <<authToken, userInfo, sinceLogout>>
    /\ Step(i, [Resumed(cyc[i]) EXCEPT
                  !.pc = "done",
                  !.answered = IF r.net = "ok" /\ ResponseOk(r) THEN "ok" ELSE "failed",
                  !.status = IF r.net = "ok" THEN r.status ELSE 0,
                  !.msgs = IF LoginSucceeds(r)
                           THEN <<LoginSuccessMsg(LoginUserInfo(r.body))>>
                           ELSE <<LoginFailure(r)>>,
                  !.qret = IF LoginSucceeds(r)
                           THEN [kind |-> "login", result |-> r.body]
                           ELSE [kind |-> "nologin"],
                  !.ret = Void])
    /\ UNCHANGED backendToken

\* case logout: clearAuth() and the showLogin message
Logout(i) ==
    /\ Start(i)
    /\ authToken' = NULL
    /\ userInfo' = NullObject
    /\ sinceLogout' = TRUE
    /\ Step(i, [Returns("logout", Void) EXCEPT !.msgs = <<ShowLoginMsg>>])
    /\ UNCHANGED backendToken

----------------------------------------------------------------------------
(* BackendService: the request layer of src/src/extension.ts *)

Replies ==
    {Undefined, <<>>, ReplyBlank, ReplyArray, ReplyLines}

QueryAnswers ==
    {NetworkError}
      \cup {HttpResponse(s, BadJson) : s \in ErrorStatuses}
      \cup {HttpResponse(200, [response |-> t]) : t \in Replies}
      \cup {HttpResponse(200, BadJson)}

AuthRequiredError == "Authentication required. Please log in first."

AuthFailedError == "Authentication failed. Please log in again."

FetchFailedText == "fetch failed"

JsonErrorText == "Unexpected token in JSON"

HttpErrorText(status) == "HTTP " \o ToString(status) \o ": " \o StatusText(status)

\* the catch of query(): throw new Error("Backend error: " + error.message)
BackendError(message) == "Backend error: " \o message

Returned(value) == [ok |-> TRUE, value |-> value, error |-> NULL]

Thrown(message) == [ok |-> FALSE, value |-> Undefined, error |-> message]

\* only 401 taken for an authentication failure
AuthStatusOnly401(status) == status = 401

\* the status test of query(): 401 and 403 are authentication failures
AuthStatus(status) == status = 401 \/ status = 403

\* query() from its await of fetch to its end, on the answer a
QueryResult(a) ==
    IF a.net = "error" THEN Thrown(BackendError(FetchFailedText))
    ELSE IF ~ResponseOk(a)
         THEN IF AuthStatus(a.status)
              THEN Thrown(BackendError(AuthFailedError))
              ELSE Thrown(BackendError(HttpErrorText(a.status)))
    ELSE IF a.body = BadJson THEN Thrown(BackendError(JsonErrorText))
    ELSE Returned(a.body.response)

\* the status a response carries (0 when fetch rejected)
StatusOf(a) == IF a.net = "ok" THEN a.status ELSE 0

\* the step of a cycle whose pending call got the answer a, which the request
\* layer turned into q
Answered(c, a, q) ==
    [Resumed(c) EXCEPT !.answered = IF q.ok THEN "ok" ELSE "failed",
                       !.status = StatusOf(a),
                       !.error = q.error]

\* the first statement of query(): isAuthenticated()
CanQuery(token) == Truthy(token)

\* getHeaders(): Authorization and X-Auth-Token carry the token when one is held
HeaderToken(token) == IF Truthy(token) THEN token ELSE NULL

ChatPayload(message) == [message |-> message]

CompletionPayload(prompt) == [message |-> prompt, type |-> "completion", timeout |-> 5000]

\* queryChat(message): the request query("/query_aatma", { message }) issues
ChatCall(message, token) == Call(ChatEndpoint, ChatPayload(message), HeaderToken(token))

\* the first request of queryCompletion(prompt)
PrimaryCall(prompt, token) ==
    Call(CompletionEndpoint, CompletionPayload(prompt), HeaderToken(token))

\* the completion endpoint tried again instead of the chat endpoint
FallbackCallSameEndpoint(prompt, token) == PrimaryCall(prompt, token)

\* the fallback request of queryCompletion(prompt)
FallbackCall(prompt, token) == Call(ChatEndpoint, ChatPayload(prompt), HeaderToken(token))

\* queryCompletion gives up: return ""
GiveUp == Returned(<<>>)

----------------------------------------------------------------------------
(* What each completion-type handler does with the text queryCompletion returned *)

DefaultMaxSuggestions == 5

\* getCompletionKind: the switch on kind?.toLowerCase()
getCompletionKind(kind) ==
    CASE kind = "function"  -> "Function"
      [] kind = "method"    -> "Method"
      [] kind = "variable"  -> "Variable"
      [] kind = "class"     -> "Class"
      [] kind = "property"  -> "Property"
      [] kind = "snippet"   -> "Snippet"
      [] kind = "keyword"   -> "Keyword"
      [] kind = "module"    -> "Module"
      [] kind = "interface" -> "Interface"
      [] OTHER -> "Text"

\* the CompletionItem built for a suggestion at 0-based position index
CompletionItem(suggestion, index) ==
    [ label      |-> suggestion.text,
      kind       |-> getCompletionKind(suggestion.kind),
      detail     |-> OrText(suggestion.detail,
                            <<"D", "e", "v", "A", "l", "l", "e", "y">>),
      insertText |-> OrText(suggestion.insertText, suggestion.text),
      sortText   |-> "0" \o (IF index < 10 THEN "0" ELSE "") \o ToString(index),
      filterText |-> suggestion.text ]

Items(items) == [kind |-> "items", items |-> items]

Threw == [kind |-> "throw", items |-> <<>>]

\* provideCompletions without its catch
CompletionsReturnNoCatch(response) ==
    LET parsed == parseCompletionResponse(response)
        kept == Slice0(parsed.suggestions, DefaultMaxSuggestions)
    IN  IF parsed.threw
        THEN Threw
        ELSE Items([k \in 1..Len(kept) |-> CompletionItem(kept[k], k - 1)])

\* provideCompletions after await queryCompletion: parse, cap, map; its
\* catch turns whatever is thrown into the empty list
CompletionsReturn(response) ==
    LET parsed == parseCompletionResponse(response)
        kept == Slice0(parsed.suggestions, DefaultMaxSuggestions)
    IN  IF parsed.threw
        THEN Items(<<>>)
        ELSE Items([k \in 1..Len(kept) |-> CompletionItem(kept[k], k - 1)])

\* provideInlineCompletionItems after await queryCompletion
InlineReturn(response) ==
    IF TruthyText(response) /\ TruthyText(Trim(response))
    THEN Items(<<[insertText |-> Trim(response)]>>)
    ELSE Items(<<>>)

NoHover == [kind |-> "undefined"]

\* a hover built from whatever came back
HoverReturnUnchecked(response) == [kind |-> "hover", text |-> response]

\* provideHover after await queryCompletion
HoverReturn(response) ==
    IF TruthyText(response) /\ TruthyText(Trim(response))
    THEN [kind |-> "hover", text |-> response]
    ELSE NoHover

\* devalley.generateCode after await queryCompletion: the editor edit
GenerateReturn(via, response) ==
    IF TruthyText(response)
    THEN [kind |-> "edit",
          how  |-> IF via = "selection" THEN "replace" ELSE "insert",
          text |-> response]
    ELSE Void

\* every handler computes its result from the empty reply, whatever q holds
FinishedOnEmptyReply(c, q) ==
    [c EXCEPT !.pc = "done",
              !.qret = q,
              !.ret = CASE c.op = "completions" -> CompletionsReturn(<<>>)
                        [] c.op = "inline" -> InlineReturn(<<>>)
                        [] c.op = "hover" -> HoverReturn(<<>>)
                        [] c.op = "generate" -> GenerateReturn(c.via, <<>>)]

\* the handler of step c resumes with the text queryCompletion returned
Finished(c, q) ==
    [c EXCEPT !.pc = "done",
              !.qret = q,
              !.ret = CASE c.op = "completions" -> CompletionsReturn(q.value)
                        [] c.op = "inline" -> InlineReturn(q.value)
                        [] c.op = "hover" -> HoverReturn(q.value)
                        [] c.op = "generate" -> GenerateReturn(c.via, q.value)]

\* queryCompletion(prompt), called in step o, up to its first await; the
\* request layer holds token
QueryCompletion(o, via, prompt, token) ==
    LET c == [o EXCEPT !.via = via, !.prompt = prompt]
    IN  IF CanQuery(token)
        THEN [c EXCEPT !.pc = "primary", !.calls = <<PrimaryCall(prompt, token)>>]
        ELSE Finished([c EXCEPT !.error = AuthRequiredError], GiveUp)

----------------------------------------------------------------------------
(* The handlers of src/src/extension.ts *)

Texts == {"sort a list"}

\* an assistant message posted after the error
ChatMessagesErrorThenAssistant(q) ==
    IF q.ok THEN <<PanelMsg("assistant", q.value)>>
    ELSE <<PanelMsg("error", q.error), PanelMsg("assistant", q.value)>>

\* the panel messages of the message handler: sendResponse or sendError
ChatMessages(q) ==
    IF q.ok THEN <<PanelMsg("assistant", q.value)>> ELSE <<PanelMsg("error", q.error)>>

\* the refusal of case send
SendRefusal == <<PanelMsg("error", AuthRequiredPanelText), ShowLoginMsg>>

\* case send, and the message handler up to its await of fetch
Send(i, text) ==
    /\ Start(i)
    /\ IF ~isAuthenticated
       THEN /\ Step(i, [Returns("send", Void) EXCEPT !.msgs = SendRefusal])
            /\ UNCHANGED backendToken
       ELSE /\ backendToken' = authToken
            /\ Step(i, IF CanQuery(authToken)
                       THEN [Invoked("send") EXCEPT
                               !.pc = "chat",
                               !.prompt = text,
                               !.calls = <<ChatCall(text, authToken)>>]
                       ELSE [Returns("send", Void) EXCEPT
                               !.error = AuthRequiredError,
                               !.msgs = ChatMessages(Thrown(AuthRequiredError))])
    /\ UNCHANGED <<authToken, userInfo, sinceLogout>>

\* the message handler from its await of fetch to its end
SendResponse(i, a) ==
    /\ cyc[i].op = "send"
    /\ cyc[i].pc = "chat"
    /\ Step(i, [Answered(cyc[i], a, QueryResult(a)) EXCEPT !.pc = "done",
                                           !.qret = QueryResult(a),
                                           !.msgs = ChatMessages(QueryResult(a)),
                                           !.ret = Void])
    /\ UNCHANGED <<authToken, userInfo, backendToken, sinceLogout>>

CompletionsPrompt == "Provide 5 code completions for the following context: ..."

InlinePrompt == "Complete this code: ... |CURSOR| ..."

HoverPrompt == "Explain this code element: ..."

GeneratePrompt(selectedText) ==
    "Generate code based on this comment or description: " \o selectedText

TriggerKinds == {"Invoke", "TriggerCharacter"}

\* provideCompletions up to its first await
ProvideCompletions(i, enabled, wordLength, triggerKind) ==
    /\ Start(i)
    /\ IF ~enabled \/ ~isAuthenticated
       THEN /\ Step(i, Returns("completions", Items(<<>>)))
            /\ UNCHANGED backendToken
       ELSE /\ backendToken' = authToken
            /\ Step(i, IF wordLength < 2 /\ triggerKind # "Invoke"
                       THEN Returns("completions", Items(<<>>))
                       ELSE QueryCompletion(Invoked("completions"), "", CompletionsPrompt,
                                            authToken))
    /\ UNCHANGED <<authToken, userInfo, sinceLogout>>

\* provideInlineCompletionItems up to its first await
ProvideInline(i, enabled) ==
    /\ Start(i)
    /\ IF ~enabled \/ ~isAuthenticated
       THEN /\ Step(i, Returns("inline", Items(<<>>)))
            /\ UNCHANGED backendToken
       ELSE /\ backendToken' = authToken
            /\ Step(i, QueryCompletion(Invoked("inline"), "", InlinePrompt, authToken))
    /\ UNCHANGED <<authToken, userInfo, sinceLogout>>

\* provideHover up to its first await; wordLength 0 stands for no word range
ProvideHover(i, wordLength) ==
    /\ Start(i)
    /\ IF ~isAuthenticated
       THEN /\ Step(i, Returns("hover", NoHover))
            /\ UNCHANGED backendToken
       ELSE /\ backendToken' = authToken
            /\ Step(i, IF wordLength < 3
                       THEN Returns("hover", NoHover)
                       ELSE QueryCompletion(Invoked("hover"), "", HoverPrompt, authToken))
    /\ UNCHANGED <<authToken, userInfo, sinceLogout>>

LoginFirstWarning == "Please log in first to use DevAlley features"

NoEditorWarning == "No active editor found"

\* devalley.generateCode up to its first await
GenerateCode(i, hasEditor, selectedText) ==
    /\ Start(i)
    /\ IF ~isAuthenticated
       THEN /\ Step(i, [Returns("generate", Void) EXCEPT !.shown = <<LoginFirstWarning>>])
            /\ UNCHANGED backendToken
       ELSE /\ backendToken' = authToken
            /\ Step(i, IF ~hasEditor
                       THEN [Returns("generate", Void) EXCEPT !.shown = <<NoEditorWarning>>]
                       ELSE IF Truthy(selectedText)
                       THEN QueryCompletion(Invoked("generate"), "selection",
                                            GeneratePrompt(selectedText), authToken)
                       ELSE [Invoked("generate") EXCEPT !.pc = "input", !.via = "input"])
    /\ UNCHANGED <<authToken, userInfo, sinceLogout>>

\* devalley.generateCode from its await of showInputBox to its next await
InputBox(i, description) ==
    /\ cyc[i].op = "generate"
    /\ cyc[i].pc = "input"
    /\ Step(i, IF Truthy(description)
               THEN QueryCompletion(Resumed(cyc[i]), "input", description, backendToken)
               ELSE [Resumed(cyc[i]) EXCEPT !.pc = "done", !.ret = Void])
    /\ UNCHANGED <<authToken, userInfo, backendToken, sinceLogout>>

\* queryCompletion from the await of its first query to its next await or its end
PrimaryResponse(i, a) ==
    /\ cyc[i].pc = "primary"
    /\ Step(i, IF QueryResult(a).ok
               THEN Finished(Answered(cyc[i], a, QueryResult(a)), QueryResult(a))
               ELSE IF CanQuery(backendToken)
               THEN [Answered(cyc[i], a, QueryResult(a)) EXCEPT
                       !.pc = "fallback",
                       !.calls = <<FallbackCall(cyc[i].prompt, backendToken)>>]
               ELSE Finished([Answered(cyc[i], a, QueryResult(a)) EXCEPT !.error = AuthRequiredError],
                             GiveUp))
    /\ UNCHANGED <<authToken, userInfo, backendToken, sinceLogout>>

\* queryCompletion from the await of its fallback query to its end
FallbackResponse(i, a) ==
    /\ cyc[i].pc = "fallback"
    /\ Step(i, Finished(Answered(cyc[i], a, QueryResult(a)),
                        IF QueryResult(a).ok THEN QueryResult(a) ELSE GiveUp))
    /\ UNCHANGED <<authToken, userInfo, backendToken, sinceLogout>>

----------------------------------------------------------------------------
(* Direct calls of the public methods of SidebarProvider *)

Tokens == {"tokA"}

\* updateAuthToken(token)
UpdateAuthToken(token) ==
    /\ authToken' = token
    /\ last' = Returns("updateAuthToken", Void)
    /\ UNCHANGED <<userInfo, backendToken, cyc, sinceLogout>>

\* clearAuth()
ClearAuth ==
    /\ authToken' = NULL
    /\ userInfo' = NullObject
    /\ last' = Returns("clearAuth", Void)
    /\ UNCHANGED <<backendToken, cyc, sinceLogout>>

----------------------------------------------------------------------------
(* The extension host of the compiled bundle, src/unnamed/part_000: no      *)
(* BackendService; queryBackend and queryBackendForCompletion fetch with    *)
(* no credential header, and the providers make no session check.           *)

\* queryBackend(message) from its await of fetch to its end
QueryBackendResult(a) ==
    IF a.net = "error" THEN Thrown(BackendError(FetchFailedText))
    ELSE IF ~ResponseOk(a) THEN Thrown(BackendError(HttpErrorText(a.status)))
    ELSE IF a.body = BadJson THEN Thrown(BackendError(JsonErrorText))
    ELSE Returned(a.body.response)

\* the try block of queryBackendForCompletion on the answer to its first fetch
BundlePrimaryResult(a) ==
    IF a.net = "error" THEN Thrown(FetchFailedText)
    ELSE IF ~ResponseOk(a) THEN Thrown(HttpErrorText(a.status))
    ELSE IF a.body = BadJson THEN Thrown(JsonErrorText)
    ELSE Returned(a.body.response)

\* the catch block of queryBackendForCompletion on the answer to its fallback fetch
BundleFallbackResult(a) ==
    IF a.net = "ok" /\ ResponseOk(a) /\ a.body # BadJson
    THEN Returned(a.body.response)
    ELSE [GiveUp EXCEPT !.error = IF a.net = "error" THEN FetchFailedText
                                  ELSE IF ResponseOk(a) THEN JsonErrorText
                                  ELSE NULL]

\* queryBackendForCompletion(prompt), called in step o, up to its first await
BundleQueryCompletion(o, via, prompt) ==
    [o EXCEPT !.via = via, !.prompt = prompt, !.pc = "primary",
              !.calls = <<Call(CompletionEndpoint, CompletionPayload(prompt), NULL)>>]

\* case send, and the bundle message handler up to its await of fetch
BundleSend(i, text) ==
    /\ Start(i)
    /\ Step(i, IF ~isAuthenticated
               THEN [Returns("send", Void) EXCEPT !.msgs = SendRefusal]
               ELSE [Invoked("send") EXCEPT
                       !.pc = "chat",
                       !.prompt = text,
                       !.calls = <<Call(ChatEndpoint, ChatPayload(text), NULL)>>])
    /\ UNCHANGED <<authToken, userInfo, backendToken, sinceLogout>>

\* the bundle message handler from its await of fetch to its end
BundleSendResponse(i, a) ==
    /\ cyc[i].op = "send"
    /\ cyc[i].pc = "chat"
    /\ Step(i, [Answered(cyc[i], a, QueryBackendResult(a)) EXCEPT
                  !.pc = "done",
                  !.qret = QueryBackendResult(a),
                  !.msgs = ChatMessages(QueryBackendResult(a)),
                  !.ret = Void])
    /\ UNCHANGED <<authToken, userInfo, backendToken, sinceLogout>>

\* the bundle provideCompletions up to its first await
BundleProvideCompletions(i, enabled, wordLength, triggerKind) ==
    /\ Start(i)
    /\ Step(i, IF ~enabled \/ (wordLength < 2 /\ triggerKind # "Invoke")
               THEN Returns("completions", Items(<<>>))
               ELSE BundleQueryCompletion(Invoked("completions"), "", CompletionsPrompt))
    /\ UNCHANGED <<authToken, userInfo, backendToken, sinceLogout>>

\* the bundle provideInlineCompletionItems up to its first await
BundleProvideInline(i, enabled) ==
    /\ Start(i)
    /\ Step(i, IF ~enabled
               THEN Returns("inline", Items(<<>>))
               ELSE BundleQueryCompletion(Invoked("inline"), "", InlinePrompt))
    /\ UNCHANGED <<authToken, userInfo, backendToken, sinceLogout>>

\* the bundle provideHover up to its first await
BundleProvideHover(i, wordLength) ==
    /\ Start(i)
    /\ Step(i, IF wordLength < 3
               THEN Returns("hover", NoHover)
               ELSE BundleQueryCompletion(Invoked("hover"), "", HoverPrompt))
    /\ UNCHANGED <<authToken, userInfo, backendToken, sinceLogout>>

\* the bundle devalley.generateCode up to its first await
BundleGenerateCode(i, hasEditor, selectedText) ==
    /\ Start(i)
    /\ Step(i, IF ~hasEditor
               THEN [Returns("generate", Void) EXCEPT !.shown = <<NoEditorWarning>>]
               ELSE IF Truthy(selectedText)
               THEN BundleQueryCompletion(Invoked("generate"), "selection",
                                          GeneratePrompt(selectedText))
               ELSE [Invoked("generate") EXCEPT !.pc = "input", !.via = "input"])
    /\ UNCHANGED <<authToken, userInfo, backendToken, sinceLogout>>

\* the bundle devalley.generateCode from its await of showInputBox on
BundleInputBox(i, description) ==
    /\ cyc[i].op = "generate"
    /\ cyc[i].pc = "input"
    /\ Step(i, IF Truthy(description)
               THEN BundleQueryCompletion(Resumed(cyc[i]), "input", description)
               ELSE [Resumed(cyc[i]) EXCEPT !.pc = "done", !.ret = Void])
    /\ UNCHANGED <<authToken, userInfo, backendToken, sinceLogout>>

\* queryBackendForCompletion from the await of its first fetch on
BundlePrimaryResponse(i, a) ==
    /\ cyc[i].pc = "primary"
    /\ Step(i, IF BundlePrimaryResult(a).ok
               THEN Finished(Answered(cyc[i], a, BundlePrimaryResult(a)),
                             BundlePrimaryResult(a))
               ELSE [Answered(cyc[i], a, BundlePrimaryResult(a)) EXCEPT
                       !.pc = "fallback",
                       !.calls = <<Call(ChatEndpoint, ChatPayload(cyc[i].prompt), NULL)>>])
    /\ UNCHANGED <<authToken, userInfo, backendToken, sinceLogout>>

\* queryBackendForCompletion from the await of its fallback fetch to its end
BundleFallbackResponse(i, a) ==
    /\ cyc[i].pc = "fallback"
    /\ Step(i, Finished([Answered(cyc[i], a, BundleFallbackResult(a)) EXCEPT
                           !.answered = IF a.net = "ok" /\ ResponseOk(a) /\ a.body # BadJson
                                        THEN "ok" ELSE "failed"],
                        [BundleFallbackResult(a) EXCEPT !.error = NULL]))
    /\ UNCHANGED <<authToken, userInfo, backendToken, sinceLogout>>

----------------------------------------------------------------------------
(* Specifications *)

Init ==
    /\ authToken = NULL
    /\ userInfo = NullObject
    /\ backendToken = NULL
    /\ cyc = [i \in Cycles |-> IdleCycle]
    /\ last = IdleStep
    /\ sinceLogout = FALSE

\* the host of src/src/extension.ts with the panel of src/src/SidebarProvider.ts
Next ==
    \/ \E i \in Cycles, u \in Usernames, p \in Passwords : Login(i, u, p)
    \/ \E i \in Cycles, r \in LoginAnswers : LoginResponse(i, r)
    \/ \E i \in Cycles : Logout(i)
    \/ \E i \in Cycles, t \in Texts : Send(i, t)
    \/ \E i \in Cycles, a \in QueryAnswers : SendResponse(i, a)
    \/ \E i \in Cycles, e \in BOOLEAN, w \in {1, 2}, k \in TriggerKinds :
          ProvideCompletions(i, e, w, k)
    \/ \E i \in Cycles, e \in BOOLEAN : ProvideInline(i, e)
    \/ \E i \in Cycles, w \in {0, 2, 3} : ProvideHover(i, w)
    \/ \E i \in Cycles, e \in BOOLEAN, s \in Texts \cup {""} : GenerateCode(i, e, s)
    \/ \E i \in Cycles, d \in Texts \cup {UNDEF, ""} : InputBox(i, d)
    \/ \E i \in Cycles, a \in QueryAnswers : PrimaryResponse(i, a)
    \/ \E i \in Cycles, a \in QueryAnswers : FallbackResponse(i, a)

Spec == Init /\ [][Next]_vars

\* the same, with the public methods of SidebarProvider called directly
NextApi ==
    \/ Next
    \/ \E t \in Tokens : UpdateAuthToken(t)
    \/ ClearAuth

SpecApi == Init /\ [][NextApi]_vars

\* the host of the compiled bundle, with the same panel
NextBundle ==
    \/ \E i \in Cycles, u \in Usernames, p \in Passwords : Login(i, u, p)
    \/ \E i \in Cycles, r \in LoginAnswers : LoginResponse(i, r)
    \/ \E i \in Cycles : Logout(i)
    \/ \E i \in Cycles, t \in Texts : BundleSend(i, t)
    \/ \E i \in Cycles, a \in QueryAnswers : BundleSendResponse(i, a)
    \/ \E i \in Cycles, e \in BOOLEAN, w \in {1, 2}, k \in TriggerKinds :
          BundleProvideCompletions(i, e, w, k)
    \/ \E i \in Cycles, e \in BOOLEAN : BundleProvideInline(i, e)
    \/ \E i \in Cycles, w \in {0, 2, 3} : BundleProvideHover(i, w)
    \/ \E i \in Cycles, e \in BOOLEAN, s \in Texts \cup {""} : BundleGenerateCode(i, e, s)
    \/ \E i \in Cycles, d \in Texts \cup {UNDEF, ""} : BundleInputBox(i, d)
    \/ \E i \in Cycles, a \in QueryAnswers : BundlePrimaryResponse(i, a)
    \/ \E i \in Cycles, a \in QueryAnswers : BundleFallbackResponse(i, a)

SpecBundle == Init /\ [][NextBundle]_vars

----------------------------------------------------------------------------
(* The panel script of SidebarProvider.ts: escapeHtml and formatResponse *)

\* . of a regular expression without the s flag
IsDot(c) == c \notin {"\n", "\r"}

UpperLetters ==
    { "A", "B", "C", "D", "E", "F", "G", "H", "I", "J", "K", "L", "M",
      "N", "O", "P", "Q", "R", "S", "T", "U", "V", "W", "X", "Y", "Z" }

\* \w of the panel script
IsWordChar(c) == IsWord(c) \/ c \in UpperLetters

\* String.prototype.toUpperCase, one character
UpperChar(c) ==
    LET lower == Chars("abcdefghijklmnopqrstuvwxyz")
        upper == Chars("ABCDEFGHIJKLMNOPQRSTUVWXYZ")
    IN  IF \E k \in 1..Len(lower) : lower[k] = c
        THEN upper[CHOOSE k \in 1..Len(lower) : lower[k] = c]
        ELSE c

toUpperCase(s) == [k \in 1..Len(s) |-> UpperChar(s[k])]

\* the least element of a non-empty set of numbers
Least(S) == CHOOSE m \in S : \A x \in S : m <= x

\* the greatest element of a non-empty set of numbers
Greatest(S) == CHOOSE m \in S : \A x \in S : m >= x

\* s with the n characters at k replaced by r
Splice(s, k, n, r) == SubSeq(s, 1, k - 1) \o r \o SubSeq(s, k + n, Len(s))

RECURSIVE Substitution(_, _, _, _)
\* the replacement text String.prototype.replace builds from the replacement
\* string repl for a match of n characters at k in s: $$ is a dollar sign,
\* $& the match, $ and a backtick the text before the match, $ and an
\* apostrophe the text after it
Substitution(repl, s, k, n) ==
    LET d == IndexFrom(repl, <<"$">>, 1)
    IN  IF d = 0 \/ d = Len(repl)
        THEN repl
        ELSE LET c == repl[d + 1]
                 pre == SubSeq(repl, 1, d - 1)
                 rest == SubSeq(repl, d + 2, Len(repl))
             IN  CASE c = "$" -> pre \o <<"$">> \o Substitution(rest, s, k, n)
                   [] c = "&" -> pre \o SubSeq(s, k, k + n - 1) \o Substitution(rest, s, k, n)
                   [] c = BT -> pre \o SubSeq(s, 1, k - 1) \o Substitution(rest, s, k, n)
                   [] c = "'" -> pre \o SubSeq(s, k + n, Len(s)) \o Substitution(rest, s, k, n)
                   [] OTHER ->
                        pre \o <<"$">> \o Substitution(SubSeq(repl, d + 1, Len(repl)), s, k, n)

\* s.replace(pattern, repl) with a string pattern: the first occurrence only
ReplaceFirst(s, pattern, repl) ==
    LET k == IndexFrom(s, pattern, 1)
    IN  IF k = 0 THEN s ELSE Splice(s, k, Len(pattern), Substitution(repl, s, k, Len(pattern)))

RECURSIVE ReplaceAll(_, _, _)
\* s.replace(/pattern/g, repl) for a pattern that is a literal text and a
\* replacement without dollar signs
ReplaceAll(s, pattern, repl) ==
    LET k == IndexFrom(s, pattern, 1)
    IN  IF k = 0 THEN s
        ELSE SubSeq(s, 1, k - 1) \o repl
               \o ReplaceAll(SubSeq(s, k + Len(pattern), Len(s)), pattern, repl)

\* escapeHtml: the innerHTML of a div whose textContent is text; the
\* serialisation of a text node replaces &, < and > and nothing else here
EscapeChar(c) ==
    CASE c = "&" -> Chars("&amp;")
      [] c = "<" -> Chars("&lt;")
      [] c = ">" -> Chars("&gt;")
      [] OTHER -> <<c>>

RECURSIVE escapeHtml(_)
escapeHtml(text) ==
    IF text = <<>> THEN <<>>
    ELSE IF Len(text) = 1 THEN EscapeChar(text[1])
    ELSE escapeHtml(SubSeq(text, 1, Len(text) \div 2))
           \o escapeHtml(SubSeq(text, Len(text) \div 2 + 1, Len(text)))

\* '__CODE_BLOCK_' + index + '__'
BlockPlaceholder(index) == Chars("__CODE_BLOCK_" \o ToString(index) \o "__")

\* '__INLINE_CODE_' + inlineIndex + '__'
InlinePlaceholder(inlineIndex) == Chars("__INLINE_CODE_" \o ToString(inlineIndex) \o "__")

\* 'code_' + Date.now() + '_' + index
BlockId(now, index) == Chars("code_" \o ToString(now) \o "_" \o ToString(index))

\* the first position >= a of s that holds no \w character, Len(s) + 1 if none
WordRunEnd(s, a) ==
    LET stops == {k \in a..Len(s) : ~IsWordChar(s[k])}
    IN  IF stops = {} THEN Len(s) + 1 ELSE Least(stops)

\* the first position >= a of s that holds no \s character, Len(s) + 1 if none
SpaceRunEnd(s, a) ==
    LET stops == {k \in a..Len(s) : ~IsSpace(s[k])}
    IN  IF stops = {} THEN Len(s) + 1 ELSE Least(stops)

\* the first position >= a of s that holds a line break, Len(s) + 1 if none
LineEnd(s, a) ==
    LET stops == {k \in a..Len(s) : ~IsDot(s[k])}
    IN  IF stops = {} THEN Len(s) + 1 ELSE Least(stops)

RECURSIVE SegmentBlocks(_, _, _, _, _)
\* the while loop over codeBlockRegex: exec scans text from position from,
\* each match is replaced in formatted by its placeholder, as a string
SegmentBlocks(text, now, formatted, codeBlocks, from) ==
    LET p == IndexFrom(text, Fence, from)
        word == p + Len(Fence)
        body == SpaceRunEnd(text, WordRunEnd(text, word))
        q == IF p = 0 THEN 0 ELSE IndexFrom(text, Fence, body)
        index == Len(codeBlocks)
        language == SubSeq(text, word, WordRunEnd(text, word) - 1)
        block == [ placeholder |-> BlockPlaceholder(index),
                   language |-> IF language = <<>> THEN Chars("text") ELSE language,
                   code |-> Trim(SubSeq(text, body, q - 1)),
                   id |-> BlockId(now, index) ]
    IN  IF q = 0
        THEN [formatted |-> formatted, codeBlocks |-> codeBlocks]
        ELSE SegmentBlocks(text, now,
                           ReplaceFirst(formatted, SubSeq(text, p, q + Len(Fence) - 1),
                                        block.placeholder),
                           Append(codeBlocks, block), q + Len(Fence))

\* the position of the backtick closing an inline span opened at p, or 0:
\* one or more characters that are neither backtick nor newline, then a backtick
InlineClose(s, p) ==
    IF p + 1 > Len(s) \/ s[p] # BT \/ s[p + 1] \in {BT, "\n"}
    THEN 0
    ELSE LET stops == {k \in (p + 2)..Len(s) : s[k] \in {BT, "\n"}}
         IN  IF stops # {} /\ s[Least(stops)] = BT THEN Least(stops) ELSE 0

RECURSIVE SegmentInline(_, _, _)
\* the while loop over inlineCodeRegex: exec scans the current formatted from
\* the regex's lastIndex (a count of characters), which the replacement of
\* the match by its placeholder does not adjust
SegmentInline(formatted, inlineCodes, lastIndex) ==
    LET opens == {p \in (lastIndex + 1)..Len(formatted) : InlineClose(formatted, p) # 0}
        p == Least(opens)
        e == InlineClose(formatted, p)
        placeholder == InlinePlaceholder(Len(inlineCodes))
    IN  IF lastIndex > Len(formatted) \/ opens = {}
        THEN [formatted |-> formatted, inlineCodes |-> inlineCodes]
        ELSE SegmentInline(ReplaceFirst(formatted, SubSeq(formatted, p, e), placeholder),
                           Append(inlineCodes,
                                  [ placeholder |-> placeholder,
                                    code |-> SubSeq(formatted, p + 1, e - 1) ]),
                           e)

\* ^ of a regular expression with the m flag
AtLineStart(s, p) == p = 1 \/ ~IsDot(s[p - 1])

NoMatch == [len |-> 0, out |-> <<>>]

\* /^marker (.*$)/gm at p: the line is put between open and close
PrefixLine(s, p, marker, open, close) ==
    IF At(s, marker, p)
    THEN LET e == LineEnd(s, p + Len(marker))
         IN  [len |-> e - p, out |-> open \o SubSeq(s, p + Len(marker), e - 1) \o close]
    ELSE NoMatch

\* /^[\s]*[-*+] (.*)$/gm at p
BulletLine(s, p) ==
    LET k == SpaceRunEnd(s, p)
    IN  IF k + 1 <= Len(s) /\ s[k] \in {"-", "*", "+"} /\ s[k + 1] = " "
        THEN LET e == LineEnd(s, k + 2)
             IN  [len |-> e - p,
                  out |-> Chars("<li>") \o SubSeq(s, k + 2, e - 1) \o Chars("</li>")]
        ELSE NoMatch

\* /^[\s]*\d+\. (.*)$/gm at p
NumberLine(s, p) ==
    LET k == SpaceRunEnd(s, p)
        stops == {j \in k..Len(s) : s[j] \notin Digits}
        d == IF stops = {} THEN Len(s) + 1 ELSE Least(stops)
    IN  IF d > k /\ d + 1 <= Len(s) /\ s[d] = "." /\ s[d + 1] = " "
        THEN LET e == LineEnd(s, d + 2)
             IN  [len |-> e - p,
                  out |-> Chars("<li>") \o SubSeq(s, d + 2, e - 1) \o Chars("</li>")]
        ELSE NoMatch

\* /^[-*]{3,}$/gm at p
RuleLine(s, p) ==
    LET e == LineEnd(s, p)
    IN  IF e - p >= 3 /\ \A j \in p..(e - 1) : s[j] \in {"-", "*"}
        THEN [len |-> e - p, out |-> Chars("<hr>")]
        ELSE NoMatch

\* the match of one of the line-anchored rules at p
LineMatch(rule, s, p) ==
    CASE rule = "h3" -> PrefixLine(s, p, Chars("### "), Chars("<h3>"), Chars("</h3>"))
      [] rule = "h2" -> PrefixLine(s, p, Chars("## "), Chars("<h2>"), Chars("</h2>"))
      [] rule = "h1" -> PrefixLine(s, p, Chars("# "), Chars("<h1>"), Chars("</h1>"))
      [] rule = "bullet" -> BulletLine(s, p)
      [] rule = "number" -> NumberLine(s, p)
      [] rule = "quote" ->
             PrefixLine(s, p, Chars("> "), Chars("<blockquote>"), Chars("</blockquote>"))
      [] rule = "hr" -> RuleLine(s, p)

RECURSIVE LineRule(_, _, _)
\* s.replace of a line-anchored rule with the g and m flags, from position p
\* on: the matches are taken left to right, each search resuming where the
\* match before it ended
LineRule(rule, s, p) ==
    LET starts == {k \in p..Len(s) : AtLineStart(s, k) /\ LineMatch(rule, s, k).len > 0}
        m == Least(starts)
    IN  IF starts = {}
        THEN SubSeq(s, p, Len(s))
        ELSE SubSeq(s, p, m - 1) \o LineMatch(rule, s, m).out
               \o LineRule(rule, s, m + LineMatch(rule, s, m).len)

RECURSIVE SpanRule(_, _, _, _)
\* /d(.*?)d/g for the marker d: the span up to the next d on the same line
SpanRule(s, d, open, close) ==
    LET p == IndexFrom(s, d, 1)
        stops == {k \in (p + Len(d))..Len(s) : At(s, d, k) \/ ~IsDot(s[k])}
        q == Least(stops)
    IN  IF p = 0 THEN s
        ELSE IF stops # {} /\ At(s, d, q)
        THEN SubSeq(s, 1, p - 1) \o open \o SubSeq(s, p + Len(d), q - 1) \o close
               \o SpanRule(SubSeq(s, q + Len(d), Len(s)), d, open, close)
        ELSE SubSeq(s, 1, p) \o SpanRule(SubSeq(s, p + 1, Len(s)), d, open, close)

\* /(<li>.*<\/li>(\s*<li>.*<\/li>)*)/gs: with the s flag the greedy .* runs
\* from the first <li> to the last </li> of the whole text
ListWrap(s) ==
    LET p == IndexFrom(s, Chars("<li>"), 1)
        closes == {k \in (p + 4)..Len(s) : At(s, Chars("</li>"), k)}
        q == Greatest(closes) + 4
    IN  IF p = 0 \/ closes = {} THEN s
        ELSE SubSeq(s, 1, p - 1) \o Chars("<ul>") \o SubSeq(s, p, q) \o Chars("</ul>")
               \o SubSeq(s, q + 1, Len(s))

RECURSIVE DropBlankParagraphs(_)
\* /<p>[\s]*<\/p>/g
DropBlankParagraphs(s) ==
    LET p == IndexFrom(s, Chars("<p>"), 1)
        e == SpaceRunEnd(s, p + 3)
    IN  IF p = 0 THEN s
        ELSE IF At(s, Chars("</p>"), e)
        THEN SubSeq(s, 1, p - 1) \o DropBlankParagraphs(SubSeq(s, e + 4, Len(s)))
        ELSE SubSeq(s, 1, p) \o DropBlankParagraphs(SubSeq(s, p + 1, Len(s)))

\* the three header rules, h3 first
Headers(s) == LineRule("h1", LineRule("h2", LineRule("h3", s, 1), 1), 1)

\* bold, then italic
Emphasis(s) ==
    SpanRule(SpanRule(s, Chars("**"), Chars("<strong>"), Chars("</strong>")),
             Chars("*"), Chars("<em>"), Chars("</em>"))

\* bullet items, the list wrapper, then numbered items
Lists(s) == LineRule("number", ListWrap(LineRule("bullet", s, 1)), 1)

\* blockquotes, then horizontal rules
QuotesAndRules(s) == LineRule("hr", LineRule("quote", s, 1), 1)

\* paragraph breaks, the outer <p>, then line breaks
Paragraphs(s) ==
    ReplaceAll(Chars("<p>") \o ReplaceAll(s, <<"\n", "\n">>, Chars("</p><p>")) \o Chars("</p>"),
               <<"\n">>, Chars("<br>"))

\* the markdown rules, in the order of the script
Markdown(s) ==
    DropBlankParagraphs(
        ReplaceAll(Paragraphs(QuotesAndRules(Lists(Emphasis(Headers(s))))),
                   Chars("<p></p>"), <<>>))

\* the two pictographs of the button labels (the module text holds ASCII only)
CopyIcon == "CLIPBOARD"

InsertIcon == "HEAVY PLUS"

\* the replacement of an inline placeholder
InlineHtml(inlineCode) ==
    Chars("<span class=\"inline-code\">") \o escapeHtml(inlineCode.code) \o Chars("</span>")

\* the replacement of a block placeholder
CodeHtml(block) ==
    Chars("<div class=\"code-block\"><div class=\"code-header\"><span class=\"code-language\">")
      \o toUpperCase(block.language)
      \o Chars("</span><div class=\"code-actions\">")
      \o Chars("<button class=\"code-action-btn\" onclick=\"copyCode('") \o block.id
      \o Chars("')\" title=\"Copy code\">") \o <<CopyIcon>> \o Chars(" Copy</button>")
      \o Chars("<button class=\"code-action-btn\" onclick=\"insertCode('") \o block.id
      \o Chars("')\" title=\"Insert\">") \o <<InsertIcon>> \o Chars(" Insert</button>")
      \o Chars("</div></div><div class=\"code-content\" id=\"") \o block.id \o Chars("\">")
      \o escapeHtml(block.code)
      \o Chars("</div></div>")

RECURSIVE RestoreInline(_, _)
\* inlineCodes.forEach: each placeholder replaced once, as a string
RestoreInline(formatted, inlineCodes) ==
    IF inlineCodes = <<>> THEN formatted
    ELSE RestoreInline(ReplaceFirst(formatted, Head(inlineCodes).placeholder,
                                    InlineHtml(Head(inlineCodes))),
                       Tail(inlineCodes))

RECURSIVE RestoreBlocks(_, _)
\* codeBlocks.forEach: each placeholder replaced once, as a string
RestoreBlocks(formatted, codeBlocks) ==
    IF codeBlocks = <<>> THEN formatted
    ELSE RestoreBlocks(ReplaceFirst(formatted, Head(codeBlocks).placeholder,
                                    CodeHtml(Head(codeBlocks))),
                       Tail(codeBlocks))

\* the text after both segmentation loops, with the regions taken out of it
WithInline(blocks) ==
    SegmentInline(blocks.formatted, <<>>, 0) @@ [codeBlocks |-> blocks.codeBlocks]

Segmented(text, now) == WithInline(SegmentBlocks(text, now, text, <<>>, 1))

\* the rest of formatResponse: the markdown rules, then both restorations
Rendered(seg) ==
    RestoreBlocks(RestoreInline(Markdown(seg.formatted), seg.inlineCodes), seg.codeBlocks)

\* formatResponse(text), run when Date.now() is now
formatResponse(text, now) == Rendered(Segmented(text, now))

----------------------------------------------------------------------------
(* parseCompletionResponse on its own: one call on one reply text *)

MaxLines == 3

MaxLong == 12

\* the lines the line-built replies are made of
ReplyLineChoices ==
    { Chars("const x = 1"), Chars("# comment"), Chars("function bar() {"), <<>>,
      Chars("  // note"), Chars("class Foo"), Chars("x => x"), Chars("var y = f(1)"),
      Chars(" plain ") }

\* the reply of the example: three lines, the second a comment
ExampleLines == <<Chars("const x = 1"), Chars("# comment"), Chars("function bar() {")>>

\* more lines than the fallback keeps
LongLines == {[k \in 1..n |-> Chars("ok")] : n \in (FallbackLineCap + 1)..MaxLong}

ReplyLineLists == (SeqsUpTo(ReplyLineChoices, MaxLines) \ {<<>>}) \cup LongLines

FenceWraps == {"none", "json", "bare"}

\* a reply text inside a fence of the given sort
Wrapped(wrap, inner) ==
    CASE wrap = "json" -> FenceJson \o <<"\n">> \o inner \o <<"\n">> \o Fence
      [] wrap = "bare" -> Fence \o <<"\n">> \o inner \o <<"\n">> \o Fence
      [] OTHER -> inner

\* a call of parseCompletionResponse about to run
ParseCall(lines, inner, wrap, response) ==
    [ op |-> "parseCompletionResponse", pc |-> "call",
      lines |-> lines,        \* the lines the reply was built from, if it was
      inner |-> inner,        \* the JSON text inside the reply, if there is one
      wrap |-> wrap,
      response |-> response,
      result |-> [threw |-> FALSE, suggestions |-> <<>>] ]

ParseCalls ==
    {ParseCall(ls, <<>>, "lines", Join(ls, <<"\n">>)) : ls \in ReplyLineLists}
      \cup {ParseCall(<<>>, e[1], w, Wrapped(w, e[1])) : e \in JsonTexts, w \in FenceWraps}

InitParse ==
    /\ authToken = NULL
    /\ userInfo = NullObject
    /\ backendToken = NULL
    /\ cyc = [i \in Cycles |-> IdleCycle]
    /\ sinceLogout = FALSE
    /\ last \in ParseCalls

\* const suggestions = parseCompletionResponse(response)
Parse ==
    /\ last.op = "parseCompletionResponse"
    /\ last.pc = "call"
    /\ last' = [last EXCEPT !.pc = "return",
                            !.result = parseCompletionResponse(last.response)]
    /\ UNCHANGED <<authToken, userInfo, backendToken, cyc, sinceLogout>>

NextParse == Parse

SpecParse == InitParse /\ [][NextParse]_vars

----------------------------------------------------------------------------
(* The panel on its own: one assistant or error message arrives and is     *)
(* rendered by addMessage through formatResponse                            *)

MaxPieces == 2

\* a stretch of reply text, and what it stands for once fences and
\* backticks are taken off (a fenced body trimmed, an inline span as it is)
Piece(raw, content, kind) == [raw |-> raw, content |-> content, kind |-> kind]

PlainPiece(raw) == Piece(raw, raw, "text")

FencedPiece(language, body) ==
    Piece(Fence \o language \o <<"\n">> \o body \o <<"\n">> \o Fence, Trim(body), "block")

InlinePiece(code) == Piece(<<BT>> \o code \o <<BT>>, code, "inline")

BlockA == FencedPiece(Chars("js"), Chars("a<1"))

BlockB == FencedPiece(<<>>, Chars("b"))

Pieces ==
    { BlockA, BlockB,
      InlinePiece(Chars("x<y")), InlinePiece(Chars("$&")), InlinePiece(Chars("$$")),
      InlinePiece(Chars("\"q'")), InlinePiece(Chars("a long inline code span")),
      PlainPiece(Chars("__CODE_BLOCK_1__")), PlainPiece(Chars("__INLINE_CODE_0__")),
      PlainPiece(Chars("<b>")), PlainPiece(Chars("hi")), PlainPiece(<<"\n">>) }

\* replies of three pieces: three blocks in a row, two of them the same, and
\* placeholder-shaped text before two blocks
LongerReplies ==
    { <<BlockA, BlockB, BlockA>>,
      <<PlainPiece(Chars("__CODE_BLOCK_1__")), BlockA, BlockB>> }

\* replies whose code holds markdown markers: an inline span alone and after
\* a long span, and a fenced block of marker lines
MarkedCodeReplies ==
    { <<InlinePiece(Chars("*i*"))>>,
      <<InlinePiece(Chars("a long inline code span")), InlinePiece(Chars("*i*"))>>,
      <<FencedPiece(Chars("md"), Chars("# h\n- a\n**b**\n> q\n---"))>> }

\* replies of list lines and of rule lines, outside code
MarkdownReplies ==
    { <<PlainPiece(Chars("- a\n- b"))>>,
      <<PlainPiece(Chars("- a\nmid\n- b"))>>,
      <<PlainPiece(Chars("1. x\n2. y"))>>,
      <<PlainPiece(Chars("- a\n1. x"))>>,
      <<PlainPiece(Chars("---"))>>,
      <<PlainPiece(Chars("***"))>>,
      <<PlainPiece(Chars("*****"))>>,
      <<PlainPiece(Chars("a\n----\nb"))>> }

PieceLists ==
    (SeqsUpTo(Pieces, MaxPieces) \ {<<>>}) \cup LongerReplies \cup MarkedCodeReplies
      \cup MarkdownReplies

\* the reply text made of the pieces, a space between two of them
ReplyText(pieces) == Join([k \in 1..Len(pieces) |-> pieces[k].raw], <<" ">>)

\* the same reply with its fences and backticks taken off
ReplyContent(pieces) == Join([k \in 1..Len(pieces) |-> pieces[k].content], <<" ">>)

\* the values of Date.now()
Clocks == {17}

\* a message of the extension arriving at the panel's message listener
PanelEvent(type, pieces, now) ==
    [ op |-> "message", pc |-> "posted", type |-> type, pieces |-> pieces, now |-> now,
      text |-> <<>>,          \* the text handed to addMessage
      formatted |-> <<>>,     \* formatted once both segmentation loops are done
      codeBlocks |-> <<>>,
      inlineCodes |-> <<>>,
      html |-> <<>> ]         \* message.innerHTML

PanelEvents ==
    {PanelEvent(t, ps, now) : t \in {"assistant", "error"}, ps \in PieceLists, now \in Clocks}

InitFormat ==
    /\ authToken = NULL
    /\ userInfo = NullObject
    /\ backendToken = NULL
    /\ cyc = [i \in Cycles |-> IdleCycle]
    /\ sinceLogout = FALSE
    /\ last \in PanelEvents

\* addMessage('assistant', text): message.innerHTML = formatResponse(text)
addMessage(text) ==
    /\ last' = [last EXCEPT !.pc = "rendered",
                            !.text = text,
                            !.formatted = Segmented(text, last.now).formatted,
                            !.codeBlocks = Segmented(text, last.now).codeBlocks,
                            !.inlineCodes = Segmented(text, last.now).inlineCodes,
                            !.html = formatResponse(text, last.now)]
    /\ UNCHANGED <<authToken, userInfo, backendToken, cyc, sinceLogout>>

\* the listener's branch msg.type === 'assistant'
OnAssistant ==
    /\ last.op = "message"
    /\ last.pc = "posted"
    /\ last.type = "assistant"
    /\ addMessage(ReplyText(last.pieces))

\* the listener's branch msg.type === 'error'
OnError ==
    /\ last.op = "message"
    /\ last.pc = "posted"
    /\ last.type = "error"
    /\ addMessage(Chars("Error: ") \o ReplyText(last.pieces))

NextFormat == OnAssistant \/ OnError

SpecFormat == InitFormat /\ [][NextFormat]_vars

----------------------------------------------------------------------------
(* The chat panel over a sequence of messages: the code blocks its document *)
(* holds, and the copy and insert buttons bound to their ids.  Here last    *)
(* is the panel: the clock, the number of messages added, the code-content  *)
(* elements in document order, and the button pressed last with the text    *)
(* it posted to the host.                                                   *)

\* messages added to the panel in one behaviour
MaxMessages == 2

PanelReplies ==
    { <<BlockA>>, <<BlockB>>, <<BlockA, BlockB>>, <<PlainPiece(Chars("hi"))>> }

\* the code-content element of a block: its id attribute and its textContent
BlockElement(block) == [id |-> block.id, code |-> block.code]

RECURSIVE BlockElements(_, _)
\* the code-content elements of the markup, in document order: the blocks
\* whose markup the restore loop has put in place of their placeholder
BlockElements(html, codeBlocks) ==
    IF codeBlocks = <<>> THEN <<>>
    ELSE IF Includes(html, Chars("id=\"") \o Head(codeBlocks).id \o Chars("\""))
         THEN <<BlockElement(Head(codeBlocks))>> \o BlockElements(html, Tail(codeBlocks))
    ELSE BlockElements(html, Tail(codeBlocks))

\* the elements formatResponse(text) adds to the document at clock value now
MessageElements(text, now) ==
    BlockElements(formatResponse(text, now), Segmented(text, now).codeBlocks)

InitPanel ==
    /\ authToken = NULL
    /\ userInfo = NullObject
    /\ backendToken = NULL
    /\ cyc = [i \in Cycles |-> IdleCycle]
    /\ sinceLogout = FALSE
    /\ last = [op |-> "panel", pc |-> "empty", now |-> 17, count |-> 0,
               blocks |-> <<>>, clicked |-> 0, text |-> <<>>]

\* messages.appendChild(message) after message.innerHTML = formatResponse(text),
\* the clock having advanced by tick since the message before
appendMessage(text, tick) ==
    /\ last.op = "panel"
    /\ last.count < MaxMessages
    /\ last' = [last EXCEPT !.pc = "added",
                            !.now = last.now + tick,
                            !.count = last.count + 1,
                            !.blocks = last.blocks \o MessageElements(text, last.now + tick),
                            !.clicked = 0,
                            !.text = <<>>]
    /\ UNCHANGED <<authToken, userInfo, backendToken, cyc, sinceLogout>>

\* the listener's branch msg.type === 'assistant'
PanelAssistant == \E r \in PanelReplies, tick \in {0, 1} : appendMessage(ReplyText(r), tick)

\* the listener's branch msg.type === 'error'
PanelError ==
    \E r \in PanelReplies, tick \in {0, 1} :
        appendMessage(Chars("Error: ") \o ReplyText(r), tick)

\* document.getElementById(id): the first element of the document with the id
getElementById(blocks, id) ==
    blocks[Least({k \in 1..Len(blocks) : blocks[k].id = id})]

\* the button of the k-th block, whose onclick holds that block's id, posts
\* the textContent of the element getElementById finds
postCode(type, k) ==
    /\ last.op = "panel"
    /\ k \in 1..Len(last.blocks)
    /\ last' = [last EXCEPT !.pc = type,
                            !.clicked = k,
                            !.text = getElementById(last.blocks, last.blocks[k].id).code]
    /\ UNCHANGED <<authToken, userInfo, backendToken, cyc, sinceLogout>>

\* window.copyCode
copyCode == \E k \in 1..(2 * MaxMessages) : postCode("copy", k)

\* window.insertCode
insertCode == \E k \in 1..(2 * MaxMessages) : postCode("insert", k)

NextPanel == PanelAssistant \/ PanelError \/ copyCode \/ insertCode

SpecPanel == InitPanel /\ [][NextPanel]_vars

----------------------------------------------------------------------------
(* The panel and the host together: the forms of the webview, the case      *)
(* login, send and logout of onDidReceiveMessage, and the webview's message *)
(* listener.  Here last is the webview: the container shown, the two submit *)
(* buttons, and what the host posted in the step just taken.  A message     *)
(* posted by either side is handled by the other in the same step; the      *)
(* awaits of fetch are where a step ends.                                   *)

\* the webview after showLogin() at the end of its script
FreshWebview ==
    [ op          |-> "webview",
      pc          |-> "loaded",
      view        |-> "login",     \* the container displayed: "login" or "chat"
      loginButton |-> "enabled",
      sendButton  |-> "enabled",
      answers     |-> "none",      \* the request the host answered in this step
      posted      |-> <<>> ]       \* the messages the host posted in this step

\* the webview's message listener on one message
OnMessage(w, msg) ==
    CASE msg.type = "loginSuccess" -> [w EXCEPT !.view = "chat"]
      [] msg.type = "loginError" -> [w EXCEPT !.loginButton = "enabled"]
      [] msg.type = "showLogin" -> [w EXCEPT !.view = "login", !.loginButton = "enabled"]
      [] msg.type = "assistant" ->
             \* addMessage('assistant', msg.text): formatResponse(undefined)
             \* throws at its first replace, and the listener ends there
             IF msg.text = Undefined THEN w ELSE [w EXCEPT !.sendButton = "enabled"]
      [] msg.type = "error" -> [w EXCEPT !.sendButton = "enabled"]

RECURSIVE Deliver(_, _)
\* the listener on the messages of one host step, in the order posted
Deliver(w, msgs) ==
    IF msgs = <<>> THEN w ELSE Deliver(OnMessage(w, Head(msgs)), Tail(msgs))

\* the webview after the event pc, the host having answered the request
\* answers with the messages msgs
Handled(w, pc, answers, msgs) ==
    Deliver([w EXCEPT !.pc = pc, !.answers = answers, !.posted = msgs], msgs)

InitLive ==
    /\ authToken = NULL
    /\ userInfo = NullObject
    /\ backendToken = NULL
    /\ cyc = [i \in Cycles |-> IdleCycle]
    /\ sinceLogout = FALSE
    /\ last = FreshWebview

\* the submit listener of the login form, and case login up to its await
loginSubmit(i, username, password) ==
    /\ last.view = "login"
    /\ last.loginButton = "enabled"
    /\ Start(i)
    /\ IF ~Truthy(username) \/ ~Truthy(password)
       THEN /\ last' = Handled(last, "loginSubmit", "none", <<>>)
            /\ UNCHANGED cyc
       ELSE /\ last' = Handled([last EXCEPT !.loginButton = "disabled"],
                               "loginSubmit", "none", <<>>)
            /\ cyc' = [cyc EXCEPT ![i] = [IdleCycle EXCEPT !.op = "login", !.pc = "login"]]
    /\ UNCHANGED <<authToken, userInfo, backendToken, sinceLogout>>

\* handleLogin from its await of fetch to its end, and the listener on the
\* message it posts
loginAnswer(i, r) ==
    /\ cyc[i].op = "login"
    /\ cyc[i].pc = "login"
    /\ IF LoginSucceeds(r)
       THEN /\ authToken' = LoginToken(r.body)
            /\ userInfo' = LoginUserInfo(r.body)
            /\ sinceLogout' = FALSE
            /\ last' = Handled(last, "loginAnswer", "login",
                               <<LoginSuccessMsg(LoginUserInfo(r.body))>>)
       ELSE /\ UNCHANGED <<authToken, userInfo, sinceLogout>>
            /\ last' = Handled(last, "loginAnswer", "login", <<LoginFailure(r)>>)
    /\ cyc' = [cyc EXCEPT ![i] = IdleCycle]
    /\ UNCHANGED backendToken

\* the submit listener of the chat form, and case send with the message
\* handler up to its await
chatSubmit(i, text) ==
    /\ last.view = "chat"
    /\ last.sendButton = "enabled"
    /\ Start(i)
    /\ IF ~isAuthenticated
       THEN /\ last' = Handled([last EXCEPT !.sendButton = "disabled"],
                               "chatSubmit", "send", SendRefusal)
            /\ UNCHANGED <<backendToken, cyc>>
       ELSE /\ backendToken' = authToken
            /\ last' = Handled([last EXCEPT !.sendButton = "disabled"],
                               "chatSubmit", "none", <<>>)
            /\ cyc' = [cyc EXCEPT ![i] = [IdleCycle EXCEPT !.op = "send", !.pc = "chat",
                                                          !.prompt = text]]
    /\ UNCHANGED <<authToken, userInfo, sinceLogout>>

\* the message handler from its await of fetch to its end, and the listener
\* on the message it posts
chatAnswer(i, a) ==
    /\ cyc[i].op = "send"
    /\ cyc[i].pc = "chat"
    /\ last' = Handled(last, "chatAnswer", "send", ChatMessages(QueryResult(a)))
    /\ cyc' = [cyc EXCEPT ![i] = IdleCycle]
    /\ UNCHANGED <<authToken, userInfo, backendToken, sinceLogout>>

\* the click listener of the logout button, and case logout
logoutClick ==
    /\ last.view = "chat"
    /\ authToken' = NULL
    /\ userInfo' = NullObject
    /\ sinceLogout' = TRUE
    /\ last' = Handled([last EXCEPT !.view = "login", !.loginButton = "enabled"],
                       "logoutClick", "none", <<ShowLoginMsg>>)
    /\ UNCHANGED <<backendToken, cyc>>

LoginAnswered == \E i \in Cycles, r \in LoginAnswers : loginAnswer(i, r)

ChatAnswered == \E i \in Cycles, a \in QueryAnswers : chatAnswer(i, a)

NextLive ==
    \/ \E i \in Cycles, u \in Usernames, p \in Passwords : loginSubmit(i, u, p)
    \/ LoginAnswered
    \/ \E i \in Cycles, text \in Texts : chatSubmit(i, text)
    \/ ChatAnswered
    \/ logoutClick

\* every fetch is answered or fails: the steps that resume from an await are
\* taken when they stay enabled
SpecLive ==
    InitLive /\ [][NextLive]_vars /\ WF_vars(LoginAnswered) /\ WF_vars(ChatAnswered)

----------------------------------------------------------------------------
(* Properties.  Each is stated on the step just taken, which last records.  *)

ProtectedOps == {"send", "completions", "inline", "hover", "generate"}

CompletionOps == {"completions", "inline", "hover", "generate"}

\* the step posted showLogin to the panel
PostedShowLogin == \E k \in 1..Len(last.msgs) : last.msgs[k].type = "showLogin"

\* the step ended its operation there, without a request
Refused == last.pc = "done" /\ last.calls = <<>>

\* C1: a protected operation (chat send, completions, inline completion,
\* hover, generate code) invoked while the Session holds no token ends at
\* once with its authentication-required outcome and issues no request.
C1_NoTokenNoRequest ==
    (last.op \in ProtectedOps /\ last.from = "invoke" /\ ~last.held)
        => /\ Refused
           /\ last.op = "send" => last.msgs = SendRefusal
           /\ last.op = "generate" => last.shown = <<LoginFirstWarning>>
           /\ last.op \in {"completions", "inline"} => last.ret = Items(<<>>)
           /\ last.op = "hover" => last.ret = NoHover

\* C2: whatever public operations of the panel run, userInfo is present
\* exactly when authToken is present.
C2_UserInfoIffToken == (userInfo # NullObject) <=> (authToken # NULL)

\* C3: the Session goes from LOGGED_OUT to LOGGED_IN only in the step that
\* receives a login response whose body has success true; the token stored
\* is the response's token, else its access_token, else the placeholder
\* built from the user id, and userInfo is stored in that same step.
C3_LoginOnlyBySuccess ==
    [][(LoggedOut /\ LoggedIn') =>
          /\ last'.op = "login"
          /\ last'.from = "login"
          /\ last'.qret.kind = "login"
          /\ last'.qret.result.success = TRUE
          /\ authToken' =
               (IF Truthy(last'.qret.result.token)
                THEN last'.qret.result.token
                ELSE IF Truthy(last'.qret.result.access_token)
                THEN last'.qret.result.access_token
                ELSE "user_" \o last'.qret.result.user_id)
          /\ userInfo' = [id |-> last'.qret.result.user_id,
                          email |-> last'.qret.result.email,
                          conversation_id |-> last'.qret.result.conversation_id]
      ]_vars

\* a login response without token and access_token has logged the user in
C3_Witness ==
    /\ last.op = "login"
    /\ last.from = "login"
    /\ LoggedIn
    /\ last.qret.result.success = TRUE
    /\ ~Truthy(last.qret.result.token)
    /\ ~Truthy(last.qret.result.access_token)

\* C4: a request answered 401 or 403 while the Session is LOGGED_IN resets
\* the Session to LOGGED_OUT and prompts for re-authentication.
C4_AuthFailureResetsSession ==
    (last.op \in ProtectedOps /\ last.held /\ last.status \in {401, 403})
        => LoggedOut /\ PostedShowLogin

\* C5: logout leaves token and userInfo absent and posts showLogin, and every
\* protected operation invoked from then until a login succeeds is refused.
C5_LogoutRefusesUntilLogin ==
    /\ last.op = "logout" => LoggedOut /\ PostedShowLogin
    /\ (sinceLogout /\ last.op \in ProtectedOps /\ last.from = "invoke") => Refused

\* C6: a completion-type prompt is sent once to the completion endpoint; if
\* that request fails, the same prompt goes exactly once to the chat endpoint;
\* if that fails too the caller gets the empty string and no error; a
\* successful completion request is followed by no fallback request.
C6_OneFallbackThenEmpty ==
    last.op \in CompletionOps =>
        /\ (last.from \in {"invoke", "input"} /\ last.calls # <<>>) =>
              /\ Len(last.calls) = 1
              /\ last.calls[1].endpoint = CompletionEndpoint
              /\ last.calls[1].payload.message = last.prompt
        /\ (last.from = "primary" /\ last.answered = "failed") =>
              /\ last.pc = "fallback"
              /\ Len(last.calls) = 1
              /\ last.calls[1].endpoint = ChatEndpoint
              /\ last.calls[1].payload = [message |-> last.prompt]
        /\ (last.from = "primary" /\ last.answered = "ok") => Refused
        /\ last.from = "fallback" =>
              /\ Refused
              /\ last.ret.kind # "throw"
              /\ last.answered = "failed" => last.qret = Returned(<<>>)

\* both requests of one completion-type prompt have failed
C6_Witness ==
    /\ last.op \in CompletionOps
    /\ last.from = "fallback"
    /\ last.answered = "failed"
    /\ last.qret = Returned(<<>>)

\* C7: a response with a non-success status is classified as an
\* authentication failure exactly when the status is 401 or 403, and as a
\* generic HTTP failure naming the status otherwise.
C7_AuthFailureExactly401403 ==
    (last.op \in ProtectedOps /\ last.status # 0 /\ ~(last.status \in 200..299)) =>
        /\ last.answered = "failed"
        /\ (last.error = "Backend error: Authentication failed. Please log in again.")
              <=> last.status \in {401, 403}
        /\ last.status \notin {401, 403} =>
              last.error = "Backend error: HTTP " \o ToString(last.status)
                               \o ": " \o StatusText(last.status)

\* a 403 has been classified
C7_Witness ==
    /\ last.op \in ProtectedOps
    /\ last.status = 403
    /\ last.error = "Backend error: Authentication failed. Please log in again."

\* C8: a chat send makes one request; when it fails no fallback request is
\* made and the panel gets exactly one message, of type error, and no
\* assistant message.
C8_ChatFailureOneError ==
    last.op = "send" =>
        /\ (last.from = "invoke" /\ last.calls # <<>>) =>
              /\ Len(last.calls) = 1
              /\ last.calls[1].endpoint = ChatEndpoint
        /\ (last.from = "chat" /\ last.answered = "failed") =>
              /\ Refused
              /\ Len(last.msgs) = 1
              /\ last.msgs[1].type = "error"
              /\ last.msgs[1].text = last.error

\* a chat request has failed with a server error
C8_Witness ==
    /\ last.op = "send"
    /\ last.from = "chat"
    /\ last.answered = "failed"
    /\ last.status = 500

C10_CompletionsDegradeToEmpty ==
    (last.op = "completions" /\ last.pc = "done") =>
        /\ last.ret.kind = "items"
        /\ last.shown = <<>>
        /\ last.msgs = <<>>
        /\ (last.from = "fallback" /\ last.answered = "failed") => last.ret.items = <<>>
        /\ (last.answered = "ok" /\ last.qret.value \in {Undefined, <<>>}) =>
              last.ret.items = <<>>

\* a reply without a response field has reached provideCompletions
C10_Witness ==
    /\ last.op = "completions"
    /\ last.pc = "done"
    /\ last.answered = "ok"
    /\ last.qret.value = Undefined
    /\ last.ret = Items(<<>>)

CountTypes(msgs, types) == Cardinality({k \in 1..Len(msgs) : msgs[k].type \in types})

\* C29: a step of the host that answers a send posts exactly one assistant
\* or error message, a step that answers a login exactly one loginSuccess or
\* loginError message; every send and every login waiting for the backend
\* is answered in the end; and a submit button that is disabled is enabled
\* again in the end.
C29_EveryRequestAnswered ==
    /\ [](last.op = "webview" =>
            /\ last.answers = "send" =>
                  CountTypes(last.posted, {"assistant", "error"}) = 1
            /\ last.answers = "login" =>
                  CountTypes(last.posted, {"loginSuccess", "loginError"}) = 1)
    /\ \A i \in Cycles : (cyc[i].op \in {"send", "login"}) ~> (cyc[i] = IdleCycle)
    /\ (last.op = "webview" /\ last.sendButton = "disabled")
          ~> (last.sendButton = "enabled")
    /\ (last.op = "webview" /\ last.loginButton = "disabled")
          ~> (last.loginButton = "enabled")

\* the step just taken ended a login that did not succeed: the credentials
\* were empty, the request was rejected or answered with a non-success
\* status, the body did not decode, or its success member was not true
UnsuccessfulLogin(step) ==
    /\ step.op = "login"
    /\ step.pc = "done"
    /\ ~(step.qret.kind = "login" /\ step.qret.result.success = TRUE)

\* C30: a login that does not succeed leaves token and user info as they
\* were, whether the Session was LOGGED_OUT or LOGGED_IN, and a login with an
\* empty username or password issues no request.
C30_FailedLoginKeepsSession ==
    [][UnsuccessfulLogin(last') =>
          /\ UNCHANGED <<authToken, userInfo>>
          /\ last'.from = "invoke" => last'.calls = <<>>
      ]_vars

\* a login answered 200 with success false has ended while the Session is
\* LOGGED_IN
C30_Witness ==
    /\ last.op = "login"
    /\ last.from = "login"
    /\ last.pc = "done"
    /\ last.status = 200
    /\ last.qret.kind = "nologin"
    /\ LoggedIn

\* C28: every request a step dispatches to the chat or the completion
\* endpoint, the fallback request and the request of generateCode after its
\* input prompt included, carries the token the Session holds in that step,
\* and none is dispatched while the Session holds no token.
C28_RequestsCarrySessionToken ==
    \A k \in 1..Len(last.calls) :
        last.calls[k].endpoint \in {ChatEndpoint, CompletionEndpoint} =>
            /\ isAuthenticated
            /\ last.calls[k].token = authToken

----------------------------------------------------------------------------
(* Properties of formatResponse, on the message last records *)

Shown == last.op = "message" /\ last.pc = "rendered"

\* the regions formatResponse took out of the text, inline spans first
Regions == last.inlineCodes \o [k \in 1..Len(last.codeBlocks) |->
                                  [ placeholder |-> last.codeBlocks[k].placeholder,
                                    code |-> last.codeBlocks[k].code ]]

\* C11: every placeholder formatResponse put into the text is replaced again:
\* the markup it returns holds none of the placeholders of that pass, whatever
\* the reply text holds (placeholder-shaped text, $ patterns in code).
C11_NoPlaceholderLeft ==
    Shown => \A k \in 1..Len(Regions) : ~Includes(last.html, Regions[k].placeholder)

RECURSIVE RestoreRaw(_, _)
\* the restoration with the escape undone and no markup around the code: each
\* placeholder replaced, the way the script replaces it, by the code it stands for
RestoreRaw(formatted, regions) ==
    IF regions = <<>> THEN formatted
    ELSE RestoreRaw(ReplaceFirst(formatted, Head(regions).placeholder, Head(regions).code),
                    Tail(regions))

\* C12: for a text of fenced and inline regions without nested delimiters,
\* taking the regions out and putting them back (no markdown rule applied,
\* the escape undone) gives every region's code as it was: a fenced body
\* trimmed, an inline span as it is, the text between them unchanged.
C12_RoundTrip ==
    Shown => RestoreRaw(last.formatted, Regions)
                = SubSeq(last.text, 1, Len(last.text) - Len(ReplyText(last.pieces)))
                    \o ReplyContent(last.pieces)

\* where the code of block k is in the markup, 0 if it is not there
BlockAt(k) ==
    IndexFrom(last.html,
              Chars("<div class=\"code-content\" id=\"") \o last.codeBlocks[k].id \o Chars("\">"),
              1)

\* C13: the blocks of a text are rendered in the order they have in the
\* text, also when two of them are the same.
C13_BlocksInTextOrder ==
    Shown => \A j, k \in 1..Len(last.codeBlocks) :
                 j < k => BlockAt(j) # 0 /\ BlockAt(j) < BlockAt(k)

\* C14, its part on <, > and &: code of the text, inline or fenced, that holds
\* one of them is nowhere in the markup as it was: it is put in only after
\* escapeHtml. (Quote characters escapeHtml leaves as they are.)
C14_CodeOnlyEscaped ==
    Shown => \A k \in 1..Len(last.pieces) :
                 (/\ last.pieces[k].kind \in {"inline", "block"}
                  /\ \E j \in 1..Len(last.pieces[k].content) :
                         last.pieces[k].content[j] \in {"<", ">", "&"})
                     => ~Includes(last.html, last.pieces[k].content)

\* the tags formatResponse writes, up to where a value of the text comes in
FormatterTags ==
    { Chars("<p>"), Chars("</p>"), Chars("<br>"), Chars("<hr>"),
      Chars("<h1>"), Chars("</h1>"), Chars("<h2>"), Chars("</h2>"),
      Chars("<h3>"), Chars("</h3>"), Chars("<strong>"), Chars("</strong>"),
      Chars("<em>"), Chars("</em>"), Chars("<ul>"), Chars("</ul>"),
      Chars("<li>"), Chars("</li>"), Chars("<blockquote>"), Chars("</blockquote>"),
      Chars("<span class=\"inline-code\">"), Chars("<span class=\"code-language\">"),
      Chars("</span>"), Chars("<div class=\"code-block\">"),
      Chars("<div class=\"code-header\">"), Chars("<div class=\"code-actions\">"),
      Chars("<div class=\"code-content\" id=\""), Chars("</div>"),
      Chars("<button class=\"code-action-btn\" onclick=\""), Chars("</button>") }

\* C15: every tag of the markup set as the message's innerHTML is one the
\* formatter wrote: no < of the reply text is in it as it was.
C15_OnlyFormatterTags ==
    Shown => \A k \in 1..Len(last.html) :
                 last.html[k] = "<" => \E tag \in FormatterTags : At(last.html, tag, k)

\* C24: once both segmentation loops are done no inline span is left in the
\* text: every backtick, one or more characters other than backtick and
\* newline, backtick has been replaced by a placeholder, and the placeholders
\* carry the indices 0, 1, 2, ... in the order the spans were taken.
C24_EveryInlineSpanExtracted ==
    Shown =>
        /\ \A p \in 1..Len(last.formatted) : InlineClose(last.formatted, p) = 0
        /\ \A k \in 1..Len(last.inlineCodes) :
               last.inlineCodes[k].placeholder = InlinePlaceholder(k - 1)

\* the characters the markdown rules look for
MarkdownMarkers == {"#", "*", "-", "+", ">", "\n"}

\* C25: code of the text, inline or fenced, that holds markdown markers is in
\* the markup as it was but for the escape (and the trimming ReplyContent
\* has applied): no markdown rule has rewritten it.
C25_CodeNotRewritten ==
    Shown => \A k \in 1..Len(last.pieces) :
                 (/\ last.pieces[k].kind \in {"inline", "block"}
                  /\ \E j \in 1..Len(last.pieces[k].content) :
                         last.pieces[k].content[j] \in MarkdownMarkers)
                     => Includes(last.html, escapeHtml(last.pieces[k].content))

\* the number of places p occurs at in s
Occurrences(s, p) == Cardinality({k \in 1..Len(s) : At(s, p, k)})

\* position k of the markup lies between a <ul> and its </ul>
InWrapper(html, k) ==
    Occurrences(SubSeq(html, 1, k - 1), Chars("<ul>"))
        > Occurrences(SubSeq(html, 1, k - 1), Chars("</ul>"))

RECURSIVE OnlyItems(_)
\* s is a run of <li>...</li> items with nothing but line breaks and white
\* space between them
OnlyItems(s) ==
    IF s = <<>> THEN TRUE
    ELSE IF IsSpace(Head(s)) THEN OnlyItems(Tail(s))
    ELSE IF StartsWith(s, Chars("<br>")) THEN OnlyItems(SubSeq(s, 5, Len(s)))
    ELSE IF StartsWith(s, Chars("<li>")) /\ IndexFrom(s, Chars("</li>"), 5) # 0
         THEN OnlyItems(SubSeq(s, IndexFrom(s, Chars("</li>"), 5) + 5, Len(s)))
    ELSE FALSE

\* every <li> of the markup lies in a wrapper
ItemsWrapped(html) ==
    \A k \in 1..Len(html) : At(html, Chars("<li>"), k) => InWrapper(html, k)

\* every wrapper of the markup is closed and holds a run of items only
WrappersHoldItems(html) ==
    \A k \in 1..Len(html) :
        At(html, Chars("<ul>"), k) =>
            /\ IndexFrom(html, Chars("</ul>"), k) # 0
            /\ OnlyItems(SubSeq(html, k + 4, IndexFrom(html, Chars("</ul>"), k) - 1))

\* C26: in the markup shown every list item, bullet or numbered, lies inside
\* a list wrapper, and a wrapper encloses one run of adjacent items and no
\* text between runs.
C26_RunsWrappedSeparately ==
    Shown => ItemsWrapped(last.html) /\ WrappersHoldItems(last.html)

\* a line made solely of three or more of the character c
RuleLineOf(line, c) == Len(line) >= 3 /\ \A k \in 1..Len(line) : line[k] = c

DividerLine(line) == RuleLineOf(line, "-") \/ RuleLineOf(line, "*")

\* the number of rule lines of a text
DividerLines(s) ==
    Cardinality({k \in 1..Len(SplitLines(s)) : DividerLine(SplitLines(s)[k])})

\* C27: every line of the text outside code that is solely three or more
\* '-' or solely three or more '*' is a divider in the markup shown.
C27_RuleLinesBecomeDividers ==
    Shown => Occurrences(last.html, Chars("<hr>")) >= DividerLines(last.formatted)

\* C22: the ids of the code blocks in the panel are pairwise distinct, and a
\* copy or insert button posts the code of the block it belongs to.
C22_DomIdsUnique ==
    last.op = "panel" =>
        /\ \A i, j \in 1..Len(last.blocks) :
               i # j => last.blocks[i].id # last.blocks[j].id
        /\ last.pc \in {"copy", "insert"} => last.text = last.blocks[last.clicked].code

----------------------------------------------------------------------------
(* Properties of parseCompletionResponse, on the call last records *)

Parsed == last.op = "parseCompletionResponse" /\ last.pc = "return"

\* what JSON.parse made of the text handed to it
Decoded == JSONParse(CleanResponse(last.response))

\* the lines the fallback is to keep, from the lines the reply was built of
RECURSIVE KeptLines(_)
KeptLines(lines) ==
    IF lines = <<>> THEN <<>>
    ELSE LET l == Trim(Head(lines))
             rest == KeptLines(Tail(lines))
         IN  IF l = <<>> \/ l[1] = "#" \/ (Len(l) >= 2 /\ l[1] = "/" /\ l[2] = "/")
             THEN rest
             ELSE <<l>> \o rest

\* C16: an object of a decoded array that has no insertText field gives a
\* suggestion whose insertText equals its text, whichever of text,
\* completion and label supplied the text.
C16_InsertTextDefaultsToText ==
    (Parsed /\ Decoded.ok /\ Decoded.isArray) =>
        \A k \in 1..Len(Decoded.items) :
            (Decoded.items[k].json = "object" /\ Decoded.items[k].insertText = Undefined) =>
                /\ k <= Len(last.result.suggestions)
                /\ last.result.suggestions[k].insertText = last.result.suggestions[k].text

C18_FencesAreTransparent ==
    (Parsed /\ last.wrap \in {"json", "bare"} /\ JSONParse(last.inner).isArray) =>
        last.result = parseCompletionResponse(last.inner)

\* C19: on the fallback path the suggestions are the trimmed non-blank lines
\* of the reply that start with neither # nor //, in order, the first 10 of
\* them; each has insertText equal to the line, detail AI suggestion and
\* empty documentation.
C19_FallbackLines ==
    (Parsed /\ last.wrap = "lines") =>
        LET kept == KeptLines(last.lines)
            n == IF Len(kept) < 10 THEN Len(kept) ELSE 10
            out == last.result.suggestions
        IN  /\ ~last.result.threw
            /\ Len(out) = n
            /\ \A k \in 1..n :
                  /\ out[k].text = kept[k]
                  /\ out[k].insertText = kept[k]
                  /\ out[k].detail = Chars("AI suggestion")
                  /\ out[k].documentation = <<>>

\* a reply of more than 10 lines went through the fallback
C19_Witness ==
    /\ Parsed
    /\ last.wrap = "lines"
    /\ Len(last.lines) > 10
    /\ Len(last.result.suggestions) = 10

\* C20: on the fallback path the kind of a line is function when an
\* identifier is followed by (, else variable when const, let or var is
\* followed by an identifier, else class when it contains "class ", else
\* function when it contains => or function, else text; the example reply
\* gives two suggestions, of kinds variable and function.
C20_FallbackKinds ==
    (Parsed /\ last.wrap = "lines") =>
        LET out == last.result.suggestions
        IN  /\ \A k \in 1..Len(out) :
                  out[k].kind =
                      (IF FuncMatch(out[k].text) THEN "function"
                       ELSE IF VarMatch(out[k].text) THEN "variable"
                       ELSE IF Includes(out[k].text, Chars("class ")) THEN "class"
                       ELSE IF \/ Includes(out[k].text, Chars("=>"))
                               \/ Includes(out[k].text, Chars("function"))
                            THEN "function"
                       ELSE "text")
            /\ last.lines = ExampleLines =>
                  /\ Len(out) = 2
                  /\ out[1].kind = "variable"
                  /\ out[2].kind = "function"

\* the example reply has been parsed
C20_Witness ==
    /\ Parsed
    /\ last.lines = ExampleLines
    /\ Len(last.result.suggestions) = 2

\* the mark every suggestion of the line-based fallback carries
FallbackDetail == Chars("AI suggestion")

\* C23: whenever the text handed to the decoder is JSON (an empty array and
\* an array with null or number elements included) the parser returns no
\* suggestion of the line-based fallback.
C23_NoFallbackWhenDecoded ==
    (Parsed /\ Decoded.ok) =>
        /\ ~last.result.threw
        /\ \A k \in 1..Len(last.result.suggestions) :
               last.result.suggestions[k].detail # FallbackDetail

====
